---- MODULE Spec2Model ----
(***************************************************************************)
(* WebCAT: RadioController (webcat-base.js) and its four CAT drivers       *)
(* (IC-9700, IC-7300, FT-991A, FT-857D) as a state machine.                *)
(*                                                                         *)
(* Granularity: one action is one run-to-completion segment of JavaScript, *)
(* from the resumption of an async function to its next await.  Promise    *)
(* continuations (microtasks) run before any timer, I/O completion or API  *)
(* call (macrotasks): macrotask actions are guarded by ~Busy.              *)
(* 'log' emissions are not modelled.                                       *)
(*                                                                         *)
(* Spec is the controller with a driver behind it.  SpecDriver is a driver *)
(* on its own, its methods called directly on a buffer.                    *)
(***************************************************************************)
EXTENDS Integers, Sequences, FiniteSets, TLC

VARIABLES
  driverId,        \* this.driverId (fixed at construction)
  driver,          \* this.driver: the driver instance (its _expect queue) or none
  port,            \* this.port   is non-null
  reader,          \* this.reader: "null" | "active" | "released"
  writer,          \* this.writer: "null" | "active" | "released"
  rxBuf,           \* this.rxBuf: sequence of bytes
  running,         \* this.running
  writeLock,       \* this.writeLock: the promise chain of send()
  polling,         \* this.polling
  _pollRunId,      \* this._pollRunId
  pollIntervalMs,  \* this.pollIntervalMs
  pollLoops,       \* the async poll loops created by startPolling, by run id
  ctx,             \* this.ctx
  state,           \* this.state: the radio state snapshot
  ops,             \* setFrequencyHz/setMode/setPTT calls in progress
  mq,              \* settled sends whose awaiting continuation has not run yet
  readLoop,        \* the _readLoop invocation: "none" | "reading" | "ended"
  conn,            \* the _connectInternal invocation in progress
  disc,            \* the disconnect invocation in progress
  emitted,         \* the events emitted in this step
  ret,             \* outcome of the API call that returned in this step
  lastTx,          \* the transport write begun in this step
  lastRx,          \* the receive-loop iteration run in this step
  hist,            \* resumeDue: an operation that paused polling has just settled
  calls,           \* number of API calls the page has made
  drvCall,         \* the driver method last called directly on this.driver, its
                   \* arguments and what it returned
  _drivers         \* the driver registry: id -> {id, factory}

vars == <<driverId, driver, port, reader, writer, rxBuf, running, writeLock,
          polling, _pollRunId, pollIntervalMs, pollLoops, ctx, state, ops, mq,
          readLoop, conn, disc, emitted, ret, lastTx, lastRx, hist, calls, drvCall,
          _drivers>>

(***************************************************************************)
(* Bounds of the model.                                                    *)
(***************************************************************************)
MaxRunId == 5
MaxOps == 2
MaxQueue == 1
MaxPollCmds == 2
MaxExpect == 1
MaxRxBuf == 7
MaxCalls == 4

(***************************************************************************)
(* Program constants.                                                      *)
(***************************************************************************)
DefaultPollMs == 250
MinPollMs == 20
MaxPollMs == 10000
MaxCmdDelayMs == 250

Min(a, b) == IF a < b THEN a ELSE b
Max(a, b) == IF a > b THEN a ELSE b

\* webcat-base.js clamp(n, a, b)
clamp(n, a, b) == Max(a, Min(b, n))

\* Optional values: null is <<>>, a value v is <<v>>.
Null == <<>>
Some(v) == <<v>>

\* JavaScript numbers handed to the API: a finite integer, NaN or Infinity.
Num(n) == [t |-> "num", v |-> n]
NaN == [t |-> "nan", v |-> 0]
Infinity == [t |-> "inf", v |-> 0]

\* Number.isFinite(Math.round(x))
IsFinite(x) == x.t = "num"

DriverIds == {"icom.ic9700", "icom.ic7300", "yaesu.ft991a", "yaesu.ft857d"}

IsIcom(d) == d \in {"icom.ic9700", "icom.ic7300"}

\* String(modeName || '').toUpperCase(), on the mode names the model feeds in.
toUpperCase(s) ==
  CASE s = "usb" -> "USB"
    [] s = "fm-n" -> "FM-N"
    [] OTHER -> s

(***************************************************************************)
(* Command encoders of the drivers.  A command is [name, arr, frames]:     *)
(* arr = FALSE is one Uint8Array (frames[1]); arr = TRUE is a JavaScript   *)
(* array of Uint8Arrays.                                                   *)
(***************************************************************************)
U8(name, bytes) == [name |-> name, arr |-> FALSE, frames |-> <<bytes>>]
U8Array(name, fs) == [name |-> name, arr |-> TRUE, frames |-> fs]
Threw(what) == [ok |-> FALSE, err |-> what, cmd |-> U8("none", <<>>)]
Built(cmd) == [ok |-> TRUE, err |-> "none", cmd |-> cmd]

\* Default CI-V addresses: parseHexByte('A2'), parseHexByte('94').
radioAddr(d) == IF d = "icom.ic9700" THEN 162 ELSE 148
ctrlAddr == 224

\* IcomCivTransport.buildFrame
buildFrame(d, payload) == <<254, 254, radioAddr(d), ctrlAddr>> \o payload \o <<253>>

Pow10(k) == IF k = 0 THEN 1 ELSE
            IF k = 1 THEN 10 ELSE
            IF k = 2 THEN 100 ELSE
            IF k = 3 THEN 1000 ELSE
            IF k = 4 THEN 10000 ELSE
            IF k = 5 THEN 100000 ELSE
            IF k = 6 THEN 1000000 ELSE
            IF k = 7 THEN 10000000 ELSE
            IF k = 8 THEN 100000000 ELSE
            1000000000

\* digit i (0 = lowest) of the decimal representation of n >= 0
DecDigit(n, i) == (n \div Pow10(i)) % 10

\* the BCD bytes with the two digits of each byte swapped
IcomFreqBytesSwapped(f) ==
  [i \in 1..5 |-> DecDigit(f, 2 * (i - 1)) * 16 + DecDigit(f, 2 * (i - 1) + 1)]

\* Icom cmdSetFreqHz: 5 bytes little-endian BCD of the ten lowest digits.
IcomFreqBytes(f) ==
  [i \in 1..5 |-> DecDigit(f, 2 * (i - 1) + 1) * 16 + DecDigit(f, 2 * (i - 1))]

\* if (!Number.isFinite(f) || f <= 0) throw new Error('Bad frequency')
BadFrequency(hz) == ~IsFinite(hz) \/ hz.v <= 0

IcomCmdSetFreqHz(d, hz) ==
  IF BadFrequency(hz) THEN Threw("Bad frequency")
  ELSE Built(U8("cmdSetFreqHz", buildFrame(d, <<5>> \o IcomFreqBytes(hz.v))))

Ic9700ModeMap ==
  ("LSB" :> 0) @@ ("USB" :> 1) @@ ("AM" :> 2) @@ ("CW" :> 3) @@ ("RTTY" :> 4) @@
  ("FM" :> 5) @@ ("CW-R" :> 7) @@ ("CWR" :> 7) @@ ("RTTY-R" :> 8) @@ ("DV" :> 23) @@
  ("DD" :> 34)

Ic7300ModeMap ==
  ("LSB" :> 0) @@ ("USB" :> 1) @@ ("AM" :> 2) @@ ("CW" :> 3) @@ ("RTTY" :> 4) @@
  ("FM" :> 5) @@ ("CW-R" :> 7) @@ ("RTTY-R" :> 8) @@ ("DV" :> 23) @@ ("DD" :> 34) @@
  ("LSB-D" :> 0) @@ ("USB-D" :> 1) @@ ("AM-D" :> 2) @@ ("CW-D" :> 3) @@
  ("RTTY-D" :> 4) @@ ("FM-D" :> 5)

\* isDigital that never reports a data mode
isDigitalNever(mm) == FALSE

isDigital(mm) == mm \in {"LSB-D", "USB-D", "AM-D", "CW-D", "RTTY-D", "FM-D"}

\* ASCII codes of the FT-991A mode characters '1'..'9', 'A'..'E'
Ft991aModeMap ==
  ("LSB" :> 49) @@ ("USB" :> 50) @@ ("CW" :> 51) @@ ("CW-U" :> 51) @@ ("FM" :> 52) @@
  ("AM" :> 53) @@ ("RTTY" :> 54) @@ ("RTTY-LSB" :> 54) @@ ("CW-L" :> 55) @@
  ("DATA-LSB" :> 56) @@ ("RTTY-USB" :> 57) @@ ("DATA-FM" :> 65) @@ ("FM-N" :> 66) @@
  ("DATA-USB" :> 67) @@ ("AM-N" :> 68) @@ ("C4FM" :> 69)

Ft857dModeMap ==
  ("LSB" :> 0) @@ ("USB" :> 1) @@ ("CW" :> 2) @@ ("CWR" :> 3) @@ ("AM" :> 4) @@
  ("WFM" :> 6) @@ ("FM" :> 8) @@ ("FM-N" :> 136) @@ ("NFM" :> 136) @@ ("DIG" :> 10) @@
  ("PKT" :> 12)

ModeMap(d) ==
  CASE d = "icom.ic9700" -> Ic9700ModeMap
    [] d = "icom.ic7300" -> Ic7300ModeMap
    [] d = "yaesu.ft991a" -> Ft991aModeMap
    [] OTHER -> Ft857dModeMap

\* YaesuFT857DDriver._cmd5
cmd5(b1, b2, b3, b4, op) == <<b1 % 256, b2 % 256, b3 % 256, b4 % 256, op % 256>>

\* ASCII bytes: 'F' 70, 'A' 65, 'M' 77, 'D' 68, 'X' 88, 'T' 84, 'P' 80, 'C' 67,
\* 'R' 82, '0' 48, ';' 59
Semi == 59
AsciiDigit(k) == 48 + k

cmdSetModeFallback(d, modeName) ==
  LET m == toUpperCase(modeName)
      code == IF m \in DOMAIN ModeMap(d) THEN ModeMap(d)[m] ELSE ModeMap(d)["USB"]
  IN  Built(U8("cmdSetMode", <<code>>))

\* cmdSetMode of each driver: the mode table lookup throws on an unknown name.
cmdSetMode(d, modeName) ==
  LET m == toUpperCase(modeName) IN
  IF m \notin DOMAIN ModeMap(d) THEN Threw("unsupported mode")
  ELSE LET code == ModeMap(d)[m] IN
    CASE d = "icom.ic9700" -> Built(U8("cmdSetMode", buildFrame(d, <<6, code>>)))
      [] d = "icom.ic7300" ->
           Built(U8Array("cmdSetMode",
                         << buildFrame(d, <<6, code>>),
                            buildFrame(d, <<26, 6, IF isDigital(m) THEN 1 ELSE 0>>) >>))
      [] d = "yaesu.ft991a" -> Built(U8("cmdSetMode", <<77, 68, 48, code, Semi>>))
      [] OTHER -> Built(U8("cmdSetMode", cmd5(code, 0, 0, 0, 7)))

\* FT-991A: String(f).padStart(9, '0').slice(-9)
Ft991aFreqDigits(f) == [i \in 1..9 |-> AsciiDigit(DecDigit(f, 9 - i))]

\* FT-857D: 10 Hz units (Math.round(f / 10)), 8 digits kept, BCD big-endian
Ft857dTenHz(f) == (f + 5) \div 10
Ft857dFreqBytes(f) ==
  LET t == Ft857dTenHz(f)
  IN  [i \in 1..4 |-> DecDigit(t, 9 - 2 * i) * 16 + DecDigit(t, 8 - 2 * i)]

cmdSetFreqHz(d, hz) ==
  IF BadFrequency(hz) THEN Threw("Bad frequency")
  ELSE CASE IsIcom(d) -> IcomCmdSetFreqHz(d, hz)
         [] d = "yaesu.ft991a" ->
              Built(U8("cmdSetFreqHz", <<70, 65>> \o Ft991aFreqDigits(hz.v) \o <<Semi>>))
         [] OTHER ->
              LET b == Ft857dFreqBytes(hz.v)
              IN  Built(U8("cmdSetFreqHz", cmd5(b[1], b[2], b[3], b[4], 1)))

cmdSetPTT(d, on) ==
  CASE IsIcom(d) -> U8("cmdSetPTT", buildFrame(d, <<28, 0, IF on THEN 1 ELSE 0>>))
    [] d = "yaesu.ft991a" -> U8("cmdSetPTT", <<77, 88, IF on THEN 49 ELSE 48, Semi>>)
    [] OTHER -> U8("cmdSetPTT", cmd5(0, 0, 0, 0, IF on THEN 8 ELSE 136))

\* Read commands, by the name of the driver method that builds them.
IcomReadPayload(name) ==
  CASE name = "cmdReadRxTxStatus" -> <<28, 0>>
    [] name = "cmdReadFreq" -> <<3>>
    [] name = "cmdReadMode" -> <<4>>
    [] name = "cmdReadSmeter" -> <<21, 2>>
    [] name = "cmdReadSWR" -> <<21, 18>>
    [] name = "cmdReadRfPwrSetting" -> <<20, 10>>
    [] name = "cmdReadPoMeter" -> <<21, 17>>
    [] name = "cmdReadVd" -> <<21, 21>>
    [] name = "cmdReadId" -> <<21, 22>>
    [] name = "cmdReadAF" -> <<20, 1>>
    [] name = "cmdReadRF" -> <<20, 2>>
    [] name = "cmdReadSQL" -> <<20, 3>>
    [] name = "cmdReadCompression" -> <<20, 14>>
    [] name = "cmdReadFilterBW" -> <<20, 33>>
    [] name = "cmdReadNoiseBlanker" -> <<20, 34>>
    [] name = "cmdReadAutoNotch" -> <<20, 36>>
    [] name = "cmdReadPreamp" -> <<20, 38>>
    [] name = "cmdReadAGC" -> <<20, 39>>
    [] name = "cmdReadMonitor" -> <<20, 40>>
    [] name = "cmdReadVFOLock" -> <<31, 5>>
    [] name = "cmdReadTuningStep" -> <<31, 16>>
    [] name = "cmdReadATUStatus" -> <<28, 8>>
    [] name = "cmdReadMeterType" -> <<21, 7>>
    [] OTHER -> <<26, 6>>

Ft991aReadText(name) ==
  CASE name = "cmdReadRxTxStatus" -> <<84, 88, Semi>>
    [] name = "cmdReadFreq" -> <<70, 65, Semi>>
    [] name = "cmdReadMode" -> <<77, 68, 48, Semi>>
    [] name = "cmdReadRfPwrSetting" -> <<80, 67, Semi>>
    [] name = "cmdReadSmeter" -> <<82, 77, 49, Semi>>
    [] name = "cmdReadPoMeter" -> <<82, 77, 53, Semi>>
    [] name = "cmdReadSWR" -> <<82, 77, 54, Semi>>
    [] name = "cmdReadId" -> <<82, 77, 55, Semi>>
    [] OTHER -> <<82, 77, 56, Semi>>

Ft857dReadOpcode(name) ==
  CASE name = "cmdReadFreqMode" -> 3
    [] name = "cmdReadRxStatus" -> 231
    [] OTHER -> 247

cmdRead(d, name) ==
  CASE IsIcom(d) -> U8(name, buildFrame(d, IcomReadPayload(name)))
    [] d = "yaesu.ft991a" -> U8(name, Ft991aReadText(name))
    [] OTHER -> U8(name, cmd5(0, 0, 0, 0, Ft857dReadOpcode(name)))

\* The read methods each driver defines (typeof this.driver.cmdX === 'function').
ReadMethods(d) ==
  CASE d = "icom.ic9700" ->
         {"cmdReadRxTxStatus", "cmdReadFreq", "cmdReadMode", "cmdReadSmeter", "cmdReadSWR",
          "cmdReadPoMeter", "cmdReadRfPwrSetting", "cmdReadVd", "cmdReadId"}
    [] d = "icom.ic7300" ->
         {"cmdReadRxTxStatus", "cmdReadFreq", "cmdReadMode", "cmdReadSmeter", "cmdReadSWR",
          "cmdReadPoMeter", "cmdReadRfPwrSetting", "cmdReadVd", "cmdReadId", "cmdReadAF",
          "cmdReadRF", "cmdReadSQL", "cmdReadCompression", "cmdReadFilterBW",
          "cmdReadNoiseBlanker", "cmdReadAutoNotch", "cmdReadPreamp", "cmdReadAGC",
          "cmdReadMonitor", "cmdReadVFOLock", "cmdReadTuningStep", "cmdReadATUStatus",
          "cmdReadMeterType", "cmdReadDataMode"}
    [] d = "yaesu.ft991a" ->
         {"cmdReadRxTxStatus", "cmdReadFreq", "cmdReadMode", "cmdReadRfPwrSetting",
          "cmdReadSmeter", "cmdReadPoMeter", "cmdReadSWR", "cmdReadId", "cmdReadVd"}
    [] OTHER -> {"cmdReadFreqMode", "cmdReadRxStatus", "cmdReadTxStatus"}

\* pollSequence() of each driver, by method name
pollSequenceNames(d) ==
  CASE d = "icom.ic9700" \/ d = "yaesu.ft991a" ->
         <<"cmdReadRxTxStatus", "cmdReadFreq", "cmdReadMode", "cmdReadSmeter", "cmdReadSWR",
           "cmdReadRfPwrSetting", "cmdReadPoMeter", "cmdReadVd", "cmdReadId">>
    [] d = "icom.ic7300" ->
         <<"cmdReadRxTxStatus", "cmdReadFreq", "cmdReadMode", "cmdReadSmeter", "cmdReadSWR",
           "cmdReadRfPwrSetting", "cmdReadPoMeter", "cmdReadVd", "cmdReadId", "cmdReadAF",
           "cmdReadRF", "cmdReadSQL", "cmdReadCompression", "cmdReadFilterBW",
           "cmdReadNoiseBlanker", "cmdReadAutoNotch", "cmdReadPreamp", "cmdReadAGC",
           "cmdReadMonitor", "cmdReadVFOLock", "cmdReadTuningStep", "cmdReadATUStatus",
           "cmdReadMeterType", "cmdReadDataMode">>
    [] OTHER -> <<"cmdReadFreqMode", "cmdReadRxStatus", "cmdReadTxStatus">>

\* The poll sequence, cut to its first MaxPollCmds commands.
pollSequence(d) ==
  LET names == pollSequenceNames(d)
  IN  [i \in 1..Min(MaxPollCmds, Len(names)) |-> cmdRead(d, names[i])]

\* driver.interCommandDelayMs (constructor defaults)
interCommandDelayMs(d) ==
  CASE IsIcom(d) -> 0
    [] d = "yaesu.ft991a" -> 20
    [] OTHER -> 25

(***************************************************************************)
(* RadioController: the write path.                                        *)
(*                                                                         *)
(* writeLock is the promise chain built by send(): err is the rejection    *)
(* the settled part of the chain ended with ("none" when it is resolved),  *)
(* q the sends whose callback has not settled yet, in the order of the     *)
(* send() calls.  A job is "queued" until its callback runs and "writing"  *)
(* while its writer.write() is pending.                                    *)
(***************************************************************************)
Job(k, id, role, cmd, live) ==
  [k |-> k, id |-> id, role |-> role, cmd |-> cmd, st |-> "queued", live |-> live]

Settled(k, id, res) == [k |-> k, id |-> id, res |-> res]

\* resumed: the loop was started when a setFrequencyHz / setMode / setPTT call
\* settled (the finally block of _withPollingPaused)
NoLoop == [pc |-> "none", idx |-> 0, late |-> 0, resumed |-> FALSE]
NoOp == [kind |-> "none", was |-> FALSE, ms |-> 0, pc |-> "none", nread |-> 0,
         phase |-> "none", byDisc |-> FALSE]

\* The controller fields the composite steps below transform.
Cur ==
  [polling |-> polling, runId |-> _pollRunId, ms |-> pollIntervalMs, loops |-> pollLoops,
   lock |-> writeLock, mq |-> mq, ops |-> ops, emitted |-> {}]

Commit(c) ==
  /\ polling' = c.polling
  /\ _pollRunId' = c.runId
  /\ pollIntervalMs' = c.ms
  /\ pollLoops' = c.loops
  /\ writeLock' = c.lock
  /\ mq' = c.mq
  /\ ops' = c.ops
  /\ emitted' = c.emitted

Emit(c, evt) == [c EXCEPT !.emitted = @ \cup {evt}]

ensureConnectedAlways == TRUE

\* an _ensureConnected() that looks at the port and the writer only
ensureConnectedRefsOnly == port /\ writer # "null"

\* _ensureConnected() does not throw
ensureConnected == state.connected /\ port /\ writer # "null"

\* the poll loop's liveness test: this.polling && this._pollRunId === runId
pollLiveNoRunId(c, g) == c.polling

pollLive(c, g) == c.polling /\ c.runId = g

\* send() with the callback not chained behind the earlier sends
sendUnchained(c, k, id, role, cmd) ==
  [c EXCEPT !.lock.q = Append(@, [Job(k, id, role, cmd, TRUE) EXCEPT !.st = "writing"])]

\* a send() that starts a fresh chain when the earlier one has rejected
sendRecovers(c, k, id, role, cmd) ==
  [c EXCEPT !.lock = [err |-> "none",
                      q |-> Append(c.lock.q, Job(k, id, role, cmd, TRUE))]]

\* send(u8): this.writeLock = this.writeLock.then(callback).  On a rejected
\* chain the callback never runs and the returned promise rejects.
send(c, k, id, role, cmd) ==
  IF c.lock.err # "none"
  THEN [c EXCEPT !.mq = Append(@, Settled(k, id, c.lock.err))]
  ELSE [c EXCEPT !.lock.q =
          Append(@, Job(k, id, role, cmd, k = "poll" => (c.polling /\ c.runId = id)))]

\* A rejection propagates down the chain: every pending send rejects with it.
Cascade(c, err) ==
  [c EXCEPT !.lock = [err |-> err, q |-> <<>>],
            !.mq = @ \o [i \in 1..Len(c.lock.q) |->
                           Settled(c.lock.q[i].k, c.lock.q[i].id, err)]]

(***************************************************************************)
(* RadioController: polling.                                               *)
(***************************************************************************)
\* a stopPolling() without the `if (!this.polling) return` guard
stopPollingUnguarded(c) ==
  [c EXCEPT !.polling = FALSE, !.runId = Min(MaxRunId, @ + 1)]

\* stopPolling()
stopPolling(c) ==
  IF ~c.polling THEN c ELSE [c EXCEPT !.polling = FALSE, !.runId = @ + 1]

perCmdDelay == clamp(interCommandDelayMs(driverId), 0, MaxCmdDelayMs)

PollDone(c, g) == [c EXCEPT !.loops[g] = NoLoop]
PollSleep(c, g) == [c EXCEPT !.loops[g].pc = "sleep", !.loops[g].idx = 0]

\* one step of `for (const cmd of seq)`: the generation check, then send(cmd)
PollFor(c, g, i) ==
  LET seq == pollSequence(driverId) IN
  IF i > Len(seq) THEN PollSleep(c, g)
  ELSE IF ~pollLive(c, g) THEN PollSleep(c, g)
  ELSE send([c EXCEPT !.loops[g].pc = "send", !.loops[g].idx = i], "poll", g, "poll", seq[i])

\* the head of `while (this.polling && this._pollRunId === runId)`
PollIter(c, g) ==
  IF ~pollLive(c, g) THEN PollDone(c, g)
  ELSE IF ~state.connected \/ writer = "null" \/ driver.id = "none" THEN PollDone(c, g)
  ELSE PollFor(c, g, 1)

\* a poll loop that sends the failed command again
PollAfterSendRetry(c, g, res) ==
  IF res = "ok"
  THEN IF perCmdDelay > 0 THEN [c EXCEPT !.loops[g].pc = "delay"]
       ELSE PollFor(c, g, c.loops[g].idx + 1)
  ELSE PollFor(Emit(c, "error"), g, c.loops[g].idx)

\* the loop resumes from `await this.send(cmd)`
PollAfterSend(c, g, res) ==
  IF res = "ok"
  THEN IF perCmdDelay > 0 THEN [c EXCEPT !.loops[g].pc = "delay"]
       ELSE PollFor(c, g, c.loops[g].idx + 1)
  ELSE PollSleep(Emit([c EXCEPT !.polling = FALSE], "error"), g)

\* a startPolling that clamps Number(intervalMs) without `|| this.pollIntervalMs`
pollIntervalNoFallback(arg, prev) ==
  IF arg.t = "nan" THEN prev
  ELSE IF arg.t = "inf" THEN MaxPollMs
  ELSE clamp(arg.v, MinPollMs, MaxPollMs)

\* Number(intervalMs) || this.pollIntervalMs, clamped to [20, 10000]
pollIntervalFrom(arg, prev) ==
  IF arg.t = "nan" \/ (arg.t = "num" /\ arg.v = 0) THEN prev
  ELSE IF arg.t = "inf" THEN MaxPollMs
  ELSE clamp(arg.v, MinPollMs, MaxPollMs)

\* clamp(this.driver.interCommandDelayMs || 0, 0, 250) for a numeric option
perCmdDelayFrom(opt) ==
  IF opt.t = "nan" THEN 0
  ELSE IF opt.t = "inf" THEN MaxCmdDelayMs
  ELSE clamp(opt.v, 0, MaxCmdDelayMs)

\* Math.max(0, this.pollIntervalMs - dt)
tickSleepMs(ms, dt) == Max(0, ms - dt)

\* startPolling(intervalMs), after _ensureConnected() passed
startPolling(c, arg) ==
  LET c1 == [c EXCEPT !.ms = pollIntervalFrom(arg, c.ms)]
      g == c1.runId + 1
  IN  IF c1.polling THEN c1
      ELSE PollIter([c1 EXCEPT !.polling = TRUE, !.runId = g,
                               !.loops[g] = [NoLoop EXCEPT !.pc = "top"]], g)

(***************************************************************************)
(* RadioController: setFrequencyHz / setMode / setPTT.                     *)
(***************************************************************************)
\* the finally block of _withPollingPaused
withPollingPausedFinally(c, was, ms) ==
  IF was /\ state.connected /\ writer # "null" /\ ensureConnected
  THEN startPolling(c, Num(ms))
  ELSE c

\* the follow-up reads of a user-initiated write, in the order they are sent
FollowUps(kind) ==
  LET cand == CASE kind = "setFrequencyHz" -> <<"cmdReadFreq", "cmdReadFreqMode">>
                [] kind = "setMode" -> <<"cmdReadMode", "cmdReadFreqMode">>
                [] OTHER -> <<"cmdReadRxTxStatus", "cmdReadTxStatus">>
      has(n) == n \in ReadMethods(driverId)
  IN  SelectSeq(cand, has)

FreeOps == {o \in 1..MaxOps : ops[o].kind = "none"}
ActiveOps == {o \in 1..MaxOps : ops[o].kind # "none"}

\* Run ids that continuations already under way may still take.
Reserved ==
  Cardinality({o \in ActiveOps : ops[o].was})
  + (IF disc.pc = "ptt" THEN 1 ELSE 0)

Room(n) == _pollRunId + n + Reserved <= MaxRunId

FreshLock == [err |-> "none", q |-> <<>>]
\* a connect that keeps the driver instance of the earlier connection
FreshDriverReused == [id |-> driverId, expect |-> driver.expect]

FreshDriver == [id |-> driverId, expect |-> <<>>]
NoDriver == [id |-> "none", expect |-> <<>>]
FreshCtx == [lastFreqHz |-> Null]
FreshState ==
  [connected |-> FALSE, ptt |-> Null, freqHz |-> Null, mode |-> Null, smeterRaw |-> Null,
   swr |-> Null, po |-> Null, rfpwr |-> Null, vd |-> Null, id |-> Null, extras |-> {}]

\* setX(...) from `await this._withPollingPaused(...)` to the first await of fn
OpBegin(c, o, kind, built, byDisc) ==
  LET was == c.polling
      ms == c.ms
      c1 == IF was THEN stopPolling(c) ELSE c
  IN  IF ~built.ok THEN withPollingPausedFinally(c1, was, ms)
      ELSE send([c1 EXCEPT !.ops[o] =
                   [kind |-> kind, was |-> was, ms |-> ms, pc |-> "set", nread |-> 0,
                    phase |-> "pre", byDisc |-> byDisc]],
                "op", o, "set", built.cmd)

\* The operation settles: the finally block runs and the caller resumes.  For
\* the setPTT(false) of disconnect() the id of the settlement records whether
\* writer.write() was called with the command (1) or never was (0).
OpEnd(c, o, res) ==
  LET op == c.ops[o]
      c0 == withPollingPausedFinally([c EXCEPT !.ops[o] = NoOp], op.was, op.ms)
      g == c0.runId
      c1 == IF g # c.runId /\ c0.loops[g].pc # "none"
            THEN [c0 EXCEPT !.loops[g].resumed = TRUE]
            ELSE c0
  IN  IF op.byDisc
      THEN [c1 EXCEPT !.mq = Append(@, Settled("disc", IF op.phase = "pre" THEN 0 ELSE 1, res))]
      ELSE c1

\* fn resumes from `await this.send(...)`
OpAfterSend(c, o, res) ==
  LET op == c.ops[o]
      reads == FollowUps(op.kind)
  IN  IF res = "ok" /\ op.nread < Len(reads)
      THEN send([c EXCEPT !.ops[o].pc = "read", !.ops[o].nread = op.nread + 1],
                "op", o, "read", cmdRead(driverId, reads[op.nread + 1]))
      ELSE OpEnd(c, o, res)

(***************************************************************************)
(* FT-857D: the expectation queue fed by onCommandSent.                    *)
(***************************************************************************)
Expect(type, len, altLen) == [type |-> type, len |-> len, altLen |-> altLen]

\* onCommandSent that expects a 4-byte reply to opcode 0x03
onCommandSentShortReply(drv, cmd) ==
  IF drv.id # "yaesu.ft857d" \/ cmd.arr \/ Len(cmd.frames[1]) # 5 THEN drv
  ELSE LET op == cmd.frames[1][5] IN
       CASE op = 3 -> [drv EXCEPT !.expect = Append(@, Expect("freqmode", 4, 0))]
         [] op = 231 -> [drv EXCEPT !.expect = Append(@, Expect("rxstatus", 1, 5))]
         [] op = 247 -> [drv EXCEPT !.expect = Append(@, Expect("txstatus", 1, 5))]
         [] OTHER -> drv

\* onCommandSent that registers an expectation for every 5-byte command
onCommandSentEveryCommand(drv, cmd) ==
  IF drv.id # "yaesu.ft857d" \/ cmd.arr \/ Len(cmd.frames[1]) # 5 THEN drv
  ELSE LET op == cmd.frames[1][5] IN
       CASE op = 3 -> [drv EXCEPT !.expect = Append(@, Expect("freqmode", 5, 0))]
         [] op = 231 -> [drv EXCEPT !.expect = Append(@, Expect("rxstatus", 1, 5))]
         [] op = 247 -> [drv EXCEPT !.expect = Append(@, Expect("txstatus", 1, 5))]
         [] OTHER -> [drv EXCEPT !.expect = Append(@, Expect("txstatus", 1, 5))]

\* driver.onCommandSent(u8, ctx); only the FT-857D driver defines it
onCommandSent(drv, cmd) ==
  IF drv.id # "yaesu.ft857d" \/ cmd.arr \/ Len(cmd.frames[1]) # 5 THEN drv
  ELSE LET op == cmd.frames[1][5] IN
       CASE op = 3 -> [drv EXCEPT !.expect = Append(@, Expect("freqmode", 5, 0))]
         [] op = 231 -> [drv EXCEPT !.expect = Append(@, Expect("rxstatus", 1, 5))]
         [] op = 247 -> [drv EXCEPT !.expect = Append(@, Expect("txstatus", 1, 5))]
         [] OTHER -> drv

ExpectRoom(cmd) == Len(onCommandSent(driver, cmd).expect) <= MaxExpect

(***************************************************************************)
(* Receive side of the drivers.  An event is [type, v]; v is null (<<>>)   *)
(* or <<value>>.  Real-valued fields derived from a raw reading (swr,      *)
(* volts, amps, watts of po_w) are not modelled.  A mode text is           *)
(* <<name, -1>> for a table entry, <<"0x", b>> for the hex fallback and    *)
(* <<"chr", b>> for a raw character.                                       *)
(***************************************************************************)
Ev(type, v) == [type |-> type, v |-> v]
Events(evs) == [threw |-> FALSE, events |-> evs]
TypeError == [threw |-> TRUE, events |-> <<>>]

\* an indexOf that returns the last occurrence
IndexFromLast(buf, b, from) ==
  LET hits == {i \in from..Len(buf) : buf[i] = b}
  IN  IF hits = {} THEN 0 ELSE CHOOSE i \in hits : \A j \in hits : i >= j

\* rxBuf.indexOf(b, from - 1), counted from 1; 0 when b does not occur
IndexFrom(buf, b, from) ==
  LET hits == {i \in from..Len(buf) : buf[i] = b}
  IN  IF hits = {} THEN 0 ELSE CHOOSE i \in hits : \A j \in hits : i <= j

\* first index of the FE FE preamble, 0 when there is none
PreambleAt(buf) ==
  LET hits == {i \in 1..(Len(buf) - 1) : buf[i] = 254 /\ buf[i + 1] = 254}
  IN  IF hits = {} THEN 0 ELSE CHOOSE i \in hits : \A j \in hits : i <= j

RECURSIVE IcomExtractFrames(_, _)
\* Icom extractFrames(rxBuf): [buf |-> what is left in rxBuf, frames |-> ...]
IcomExtractFrames(buf, frames) ==
  IF Len(buf) < 4 THEN [buf |-> buf, frames |-> frames]
  ELSE LET start == PreambleAt(buf) IN
       IF start = 0 THEN [buf |-> <<>>, frames |-> frames]
       ELSE LET b2 == SubSeq(buf, start, Len(buf))
                end == IndexFrom(b2, 253, 3)
            IN  IF end = 0 THEN [buf |-> b2, frames |-> frames]
                ELSE IcomExtractFrames(SubSeq(b2, end + 1, Len(b2)),
                                       Append(frames, SubSeq(b2, 1, end)))

\* Icom _parseFrame: the payload between the addresses and FD, or null
IcomBody(f) ==
  IF Len(f) < 6 THEN Null
  ELSE IF f[1] # 254 \/ f[2] # 254 THEN Null
  ELSE IF f[Len(f)] # 253 THEN Null
  ELSE Some(SubSeq(f, 5, Len(f) - 1))

Lo(b) == b % 16
Hi(b) == (b \div 16) % 16

\* Icom _decodeFreqHz: ten nibbles, lowest digit first, taken as they are
IcomDecodeFreqHz(data) ==
  IF Len(data) < 5 THEN Null
  ELSE Some(Lo(data[1]) + Hi(data[1]) * 10 + Lo(data[2]) * 100 + Hi(data[2]) * 1000
            + Lo(data[3]) * 10000 + Hi(data[3]) * 100000 + Lo(data[4]) * 1000000
            + Hi(data[4]) * 10000000 + Lo(data[5]) * 100000000
            + Hi(data[5]) * 1000000000)

Ic9700ModeText ==
  (0 :> "LSB") @@ (1 :> "USB") @@ (2 :> "AM") @@ (3 :> "CW") @@ (4 :> "RTTY") @@
  (5 :> "FM") @@ (7 :> "CW-R") @@ (8 :> "RTTY-R") @@ (23 :> "DV") @@ (34 :> "DD")

Ic7300ModeText ==
  Ic9700ModeText @@ (128 :> "LSB-D") @@ (129 :> "USB-D") @@ (130 :> "AM-D") @@
  (131 :> "CW-D") @@ (132 :> "RTTY-D") @@ (133 :> "FM-D") @@ (135 :> "CWR-D") @@
  (136 :> "RTTY-R-D")

\* Icom _decodeMode
IcomDecodeMode(d, data) ==
  LET map == IF d = "icom.ic9700" THEN Ic9700ModeText ELSE Ic7300ModeText IN
  IF Len(data) < 1 THEN Null
  ELSE IF data[1] \in DOMAIN map THEN Some(<<map[data[1]], -1>>)
  ELSE Some(<<"0x", data[1]>>)

\* _decodeLevel0to255 that returns every 4-digit BCD value, also above 255
IcomDecodeLevelAnyBcd(data) ==
  IF Len(data) < 1 THEN Null
  ELSE LET v == Hi(data[1]) * 1000 + Lo(data[1]) * 100 + Hi(data[2]) * 10 + Lo(data[2])
       IN  IF /\ Len(data) >= 2
              /\ Hi(data[1]) <= 9 /\ Lo(data[1]) <= 9 /\ Hi(data[2]) <= 9 /\ Lo(data[2]) <= 9
           THEN Some(v)
           ELSE Some(clamp(data[1], 0, 255))

\* Icom _decodeLevel0to255
IcomDecodeLevel0to255(data) ==
  IF Len(data) < 1 THEN Null
  ELSE LET v == Hi(data[1]) * 1000 + Lo(data[1]) * 100 + Hi(data[2]) * 10 + Lo(data[2])
       IN  IF /\ Len(data) >= 2
              /\ Hi(data[1]) <= 9 /\ Lo(data[1]) <= 9 /\ Hi(data[2]) <= 9 /\ Lo(data[2]) <= 9
              /\ v <= 255
           THEN Some(v)
           ELSE Some(clamp(data[1], 0, 255))

\* Icom _decodeOffset16: signed 16-bit little-endian
IcomDecodeOffset16(data) ==
  IF Len(data) < 2 THEN Null
  ELSE LET val == data[1] + data[2] * 256
       IN  Some(IF val >= 32768 THEN val - 65536 ELSE val)

Ic9700MeterType == (2 :> "smeter") @@ (17 :> "po") @@ (18 :> "swr") @@ (21 :> "vd") @@ (22 :> "id")

Ic7300LevelType ==
  (10 :> "txpwr") @@ (1 :> "af") @@ (2 :> "rf") @@ (3 :> "sql") @@ (14 :> "compression") @@
  (33 :> "filterbw") @@ (34 :> "nb") @@ (36 :> "autonotch") @@ (38 :> "preamp") @@
  (39 :> "agc") @@ (40 :> "monitor")

Ic7300OffsetType == (7 :> "rit") @@ (8 :> "xit") @@ (37 :> "manualnotch")

Rest(body) == SubSeq(body, 2, Len(body))

\* the part of IC-7300 parseFrame after the meter block
Ic7300ParseTail(cmd, rest) ==
  IF cmd = 20 /\ Len(rest) >= 1 /\ rest[1] \in DOMAIN Ic7300LevelType
  THEN <<Ev(Ic7300LevelType[rest[1]], IcomDecodeLevel0to255(Rest(rest)))>>
  ELSE IF cmd = 20 /\ Len(rest) >= 1 /\ rest[1] \in DOMAIN Ic7300OffsetType
  THEN IF IcomDecodeOffset16(Rest(rest)) = Null THEN <<>>
       ELSE <<Ev(Ic7300OffsetType[rest[1]], IcomDecodeOffset16(Rest(rest)))>>
  ELSE IF cmd = 28 /\ Len(rest) >= 2 /\ rest[1] = 8 THEN <<Ev("atu", Some(rest[2]))>>
  ELSE IF cmd = 26 /\ Len(rest) >= 2 /\ rest[1] = 6
  THEN <<Ev("extra", Some(<<"datamode", rest[2] = 1>>))>>
  ELSE IF cmd = 31 /\ Len(rest) >= 2 /\ rest[1] = 5 THEN <<Ev("vfolock", Some(rest[2] = 1))>>
  ELSE IF cmd = 31 /\ Len(rest) >= 2 /\ rest[1] = 16 THEN <<Ev("tuningstep", Some(rest[2]))>>
  ELSE IF cmd = 15
  THEN IF IcomDecodeFreqHz(rest) = Null THEN <<>>
       ELSE <<Ev("splittxfreq", IcomDecodeFreqHz(rest))>>
  ELSE IF cmd = 21 /\ Len(rest) >= 2 /\ rest[1] = 7 THEN <<Ev("metertype", Some(rest[2]))>>
  ELSE IF cmd = 39 /\ Len(rest) >= 2 /\ rest[1] = 0 THEN <<Ev("waterfall", Some(Rest(rest)))>>
  ELSE <<>>

\* parseFrame(frameBytes) of the IC-9700 and IC-7300 drivers
IcomParseFrame(d, f) ==
  LET b == IcomBody(f) IN
  IF b = Null THEN Events(<<>>)
  ELSE LET body == b[1]
           cmd == body[1]
           rest == Rest(body)
       IN  Events(
           IF Len(body) = 1 /\ body[1] \in {251, 250} THEN <<>>
           ELSE IF cmd = 3
           THEN IF IcomDecodeFreqHz(rest) = Null THEN <<>>
                ELSE <<Ev("freq", IcomDecodeFreqHz(rest))>>
           ELSE IF cmd = 4
           THEN IF IcomDecodeMode(d, rest) = Null THEN <<>>
                ELSE <<Ev("mode", IcomDecodeMode(d, rest))>>
           ELSE IF cmd = 28 /\ Len(rest) >= 2 /\ rest[1] = 0
           THEN <<Ev("ptt", Some(rest[2] = 1))>>
           ELSE IF cmd = 21 /\ Len(rest) >= 1 /\ rest[1] \in DOMAIN Ic9700MeterType
           THEN <<Ev(Ic9700MeterType[rest[1]], IcomDecodeLevel0to255(Rest(rest)))>>
           ELSE IF d = "icom.ic9700"
           THEN IF cmd = 20 /\ Len(rest) >= 1 /\ rest[1] = 10
                THEN <<Ev("rfpwr_setting", IcomDecodeLevel0to255(Rest(rest)))>>
                ELSE <<>>
           ELSE Ic7300ParseTail(cmd, rest))

RECURSIVE Ft991aExtractFrames(_, _)
\* FT-991A extractFrames(rxBuf): split after every ';'
Ft991aExtractFrames(buf, frames) ==
  LET end == IndexFrom(buf, Semi, 1) IN
  IF end = 0 THEN [buf |-> buf, frames |-> frames]
  ELSE Ft991aExtractFrames(SubSeq(buf, end + 1, Len(buf)), Append(frames, SubSeq(buf, 1, end)))

WhiteSpace == {9, 10, 11, 12, 13, 32, 160}
IsDigit(c) == c >= 48 /\ c <= 57

RECURSIVE TrimStart(_)
TrimStart(cs) == IF cs # <<>> /\ Head(cs) \in WhiteSpace THEN TrimStart(Tail(cs)) ELSE cs

RECURSIVE DigitRun(_, _, _)
\* value of the leading run of decimal digits; null when there is none
DigitRun(cs, acc, any) ==
  IF cs # <<>> /\ IsDigit(Head(cs)) THEN DigitRun(Tail(cs), acc * 10 + (Head(cs) - 48), TRUE)
  ELSE IF any THEN Some(acc) ELSE Null

\* parseInt(text, 10): null stands for NaN
parseInt(cs) ==
  LET t == TrimStart(cs) IN
  IF t # <<>> /\ Head(t) = 45
  THEN LET r == DigitRun(Tail(t), 0, FALSE) IN IF r = Null THEN Null ELSE Some(0 - r[1])
  ELSE IF t # <<>> /\ Head(t) = 43 THEN DigitRun(Tail(t), 0, FALSE)
  ELSE DigitRun(t, 0, FALSE)

Ft991aModeText ==
  (49 :> "LSB") @@ (50 :> "USB") @@ (51 :> "CW-U") @@ (52 :> "FM") @@ (53 :> "AM") @@
  (54 :> "RTTY-LSB") @@ (55 :> "CW-L") @@ (56 :> "DATA-LSB") @@ (57 :> "RTTY-USB") @@
  (65 :> "DATA-FM") @@ (66 :> "FM-N") @@ (67 :> "DATA-USB") @@ (68 :> "AM-N") @@
  (69 :> "C4FM")

UpperChar(c) == IF c >= 97 /\ c <= 122 THEN c - 32 ELSE c

\* maxWattsFromHz(hz) of the FT-991A driver; null stands for NaN
maxWattsFromHz(hz) ==
  IF hz = Null THEN 100
  ELSE IF hz[1] >= 144000000 /\ hz[1] <= 148000000 THEN 50
  ELSE IF hz[1] >= 420000000 /\ hz[1] <= 450000000 THEN 50
  ELSE 100

Ft991aMeterType == (49 :> "smeter") @@ (53 :> "po_w") @@ (54 :> "swr") @@ (55 :> "id") @@ (56 :> "vd")

StartsWith(cs, a, b) == Len(cs) >= 2 /\ cs[1] = a /\ cs[2] = b

\* FT-991A parseFrame(frameBytes, ctx)
Ft991aParseFrame(f, cx) ==
  LET msg == TrimStart(f)
      core == SubSeq(msg, 1, Len(msg) - 1)
  IN  IF msg = <<>> \/ msg[Len(msg)] # Semi THEN Events(<<>>)
      ELSE IF StartsWith(core, 70, 65) /\ Len(core) >= 11
      THEN LET hz == parseInt(SubSeq(core, 3, 11))
           IN  Events(IF hz = Null THEN <<>> ELSE <<Ev("freq", hz)>>)
      ELSE IF StartsWith(core, 77, 68) /\ Len(core) >= 4
      THEN LET code == UpperChar(core[4])
           IN  Events(<<Ev("mode", Some(IF code \in DOMAIN Ft991aModeText
                                        THEN <<Ft991aModeText[code], -1>>
                                        ELSE <<"chr", code>>))>>)
      ELSE IF StartsWith(core, 84, 88) /\ Len(core) >= 3
      THEN Events(<<Ev("ptt", Some(core[3] = 50))>>)
      ELSE IF StartsWith(core, 80, 67) /\ Len(core) >= 5
      THEN LET pc == parseInt(SubSeq(core, 3, 5))
           IN  Events(IF pc = Null THEN <<>>
                      ELSE <<Ev("rfpwr_setting_w",
                                Some(<<pc[1], clamp(pc[1], 0, maxWattsFromHz(cx.lastFreqHz))>>))>>)
      ELSE IF StartsWith(core, 82, 77) /\ Len(core) >= 6
      THEN LET raw == parseInt(SubSeq(core, 4, 6))
           IN  Events(IF raw = Null THEN <<>>
                      ELSE IF core[3] = 53
                      THEN <<Ev("po_w", Some(<<raw[1], maxWattsFromHz(cx.lastFreqHz)>>))>>
                      ELSE IF core[3] \in DOMAIN Ft991aMeterType
                      THEN <<Ev(Ft991aMeterType[core[3]], raw)>>
                      ELSE <<>>)
      ELSE Events(<<>>)

\* a value the controller hands to parseFrame: a Uint8Array, or a
\* {bytes, exp} object as FT-857D extractFrames returns them
U8Val(bytes) == [u8 |-> TRUE, bytes |-> bytes, exp |-> Null]
ObjVal(bytes, exp) == [u8 |-> FALSE, bytes |-> bytes, exp |-> Some(exp)]

RECURSIVE Ft857dExtractFrames(_, _, _)
\* an extractFrames that takes the alternative length when that many bytes
\* are buffered
Ft857dExtractFramesAltFirst(buf, expect, frames) ==
  IF expect = <<>> THEN [buf |-> buf, expect |-> expect, frames |-> frames]
  ELSE LET exp == Head(expect) IN
       IF exp.altLen # 0 /\ Len(buf) >= exp.altLen
       THEN Ft857dExtractFrames(SubSeq(buf, exp.altLen + 1, Len(buf)), Tail(expect),
                                Append(frames, ObjVal(SubSeq(buf, 1, exp.altLen),
                                                      [exp EXCEPT !.len = exp.altLen])))
       ELSE IF Len(buf) >= exp.len
       THEN Ft857dExtractFrames(SubSeq(buf, exp.len + 1, Len(buf)), Tail(expect),
                                Append(frames, ObjVal(SubSeq(buf, 1, exp.len), exp)))
       ELSE [buf |-> buf, expect |-> expect, frames |-> frames]

\* FT-857D extractFrames(rxBuf): cut by the expectation queue
Ft857dExtractFrames(buf, expect, frames) ==
  IF expect = <<>> THEN [buf |-> buf, expect |-> expect, frames |-> frames]
  ELSE LET exp == Head(expect) IN
       IF Len(buf) >= exp.len
       THEN Ft857dExtractFrames(SubSeq(buf, exp.len + 1, Len(buf)), Tail(expect),
                                Append(frames, ObjVal(SubSeq(buf, 1, exp.len), exp)))
       ELSE IF exp.altLen # 0 /\ Len(buf) >= exp.altLen
       THEN Ft857dExtractFrames(SubSeq(buf, exp.altLen + 1, Len(buf)), Tail(expect),
                                Append(frames, ObjVal(SubSeq(buf, 1, exp.altLen),
                                                      [exp EXCEPT !.len = exp.altLen])))
       ELSE [buf |-> buf, expect |-> expect, frames |-> frames]

\* FT-857D _decodeBcdPairByte
decodeBcdPairByte(b) == IF Hi(b) > 9 \/ Lo(b) > 9 THEN Null ELSE Some(Hi(b) * 10 + Lo(b))

Ft857dModeText ==
  (0 :> "LSB") @@ (1 :> "USB") @@ (2 :> "CW") @@ (3 :> "CWR") @@ (4 :> "AM") @@
  (6 :> "WFM") @@ (8 :> "FM") @@ (136 :> "NFM") @@ (10 :> "DIG") @@ (12 :> "PKT") @@
  (130 :> "CW-N")

\* FT-857D _parseStatusByte
parseStatusByte(kind, b) ==
  IF kind = "rxstatus" THEN <<Ev("smeter", Some(Lo(b) * 17))>>
  ELSE IF kind = "txstatus"
  THEN <<Ev("po", Some(Lo(b) * 17)), Ev("ptt", Some((b \div 128) % 2 # 1)),
         Ev("extra", Some(<<"hiSWR", (b \div 64) % 2 = 1>>))>>
  ELSE <<>>

\* FT-857D parseFrame(frameObj): reading exp.type of a value without an exp
\* property raises a TypeError
Ft857dParseFrame(x) ==
  IF x.exp = Null THEN TypeError
  ELSE LET exp == x.exp[1]
           bytes == x.bytes
       IN  IF exp.type \in {"rxstatus", "txstatus"}
           THEN Events(parseStatusByte(exp.type, IF bytes = <<>> THEN 0 ELSE bytes[1]))
           ELSE IF exp.type = "freqmode" /\ Len(bytes) = 5
           THEN LET p1 == decodeBcdPairByte(bytes[1])
                    p2 == decodeBcdPairByte(bytes[2])
                    p3 == decodeBcdPairByte(bytes[3])
                    p4 == decodeBcdPairByte(bytes[4])
                IN  IF p1 = Null \/ p2 = Null \/ p3 = Null \/ p4 = Null THEN Events(<<>>)
                    ELSE Events(<<Ev("freq", Some((p1[1] * 1000000 + p2[1] * 10000
                                                   + p3[1] * 100 + p4[1]) * 10)),
                                  Ev("mode", Some(IF bytes[5] \in DOMAIN Ft857dModeText
                                                  THEN <<Ft857dModeText[bytes[5]], -1>>
                                                  ELSE <<"0x", bytes[5]>>))>>)
           ELSE Events(<<>>)

\* extractFrames that returns the frames without removing them from rxBuf
extractFramesNoSplice(drv, buf) ==
  CASE IsIcom(drv.id) ->
         LET r == IcomExtractFrames(buf, <<>>)
         IN  [buf |-> buf, drv |-> drv,
              frames |-> [i \in 1..Len(r.frames) |-> U8Val(r.frames[i])]]
    [] drv.id = "yaesu.ft991a" ->
         LET r == Ft991aExtractFrames(buf, <<>>)
         IN  [buf |-> buf, drv |-> drv,
              frames |-> [i \in 1..Len(r.frames) |-> U8Val(r.frames[i])]]
    [] OTHER ->
         LET r == Ft857dExtractFrames(buf, drv.expect, <<>>)
         IN  [buf |-> buf, drv |-> [drv EXCEPT !.expect = r.expect], frames |-> r.frames]

\* driver.extractFrames(this.rxBuf, this.ctx): what is left of the buffer,
\* the driver afterwards and the frames
extractFrames(drv, buf) ==
  CASE IsIcom(drv.id) ->
         LET r == IcomExtractFrames(buf, <<>>)
         IN  [buf |-> r.buf, drv |-> drv,
              frames |-> [i \in 1..Len(r.frames) |-> U8Val(r.frames[i])]]
    [] drv.id = "yaesu.ft991a" ->
         LET r == Ft991aExtractFrames(buf, <<>>)
         IN  [buf |-> r.buf, drv |-> drv,
              frames |-> [i \in 1..Len(r.frames) |-> U8Val(r.frames[i])]]
    [] OTHER ->
         LET r == Ft857dExtractFrames(buf, drv.expect, <<>>)
         IN  [buf |-> r.buf, drv |-> [drv EXCEPT !.expect = r.expect], frames |-> r.frames]

\* driver.parseFrame.length
parseFrameLength(d) == IF d = "yaesu.ft991a" THEN 2 ELSE 1

\* driver.parseFrame applied to the value x
parseFrame(d, x, cx) ==
  CASE IsIcom(d) -> IF x.u8 THEN IcomParseFrame(d, x.bytes) ELSE Events(<<>>)
    [] d = "yaesu.ft991a" -> IF x.u8 THEN Ft991aParseFrame(x.bytes, cx) ELSE TypeError
    [] OTHER -> Ft857dParseFrame(x)

\* _readLoop: (parseFrame.length >= 2) ? parseFrame(f, ctx) : parseFrame(bytes)
callParseFrame(d, f, cx) ==
  IF parseFrameLength(d) >= 2 THEN parseFrame(d, f, cx) ELSE parseFrame(d, U8Val(f.bytes), cx)

SetExtra(extras, kv) == {p \in extras : p[1] # kv[1]} \cup {kv}

\* _applyEvent that rebuilds the snapshot from the event alone
applyEventRebuild(sc, ev) ==
  CASE ev.type = "freq" ->
         [sc EXCEPT !.state = [FreshState EXCEPT !.connected = sc.state.connected,
                                                 !.freqHz = ev.v],
                    !.ctx.lastFreqHz = ev.v]
    [] ev.type = "extra" -> [sc EXCEPT !.state.extras = {ev.v[1]}]
    [] OTHER -> sc

\* _applyEvent(ev), without the 'update' emission: the snapshot and ctx
applyEvent(sc, ev) ==
  LET st == sc.state IN
  CASE ev.type = "ptt" -> [sc EXCEPT !.state.ptt = ev.v]
    [] ev.type = "freq" -> [sc EXCEPT !.state.freqHz = ev.v, !.ctx.lastFreqHz = ev.v]
    [] ev.type = "mode" -> [sc EXCEPT !.state.mode = ev.v]
    [] ev.type = "smeter" -> [sc EXCEPT !.state.smeterRaw = ev.v]
    [] ev.type = "swr" -> [sc EXCEPT !.state.swr = Some(ev.v)]
    [] ev.type \in {"po", "po_w"} -> [sc EXCEPT !.state.po = Some(ev.v)]
    [] ev.type \in {"rfpwr_setting", "rfpwr_setting_w"} -> [sc EXCEPT !.state.rfpwr = Some(ev.v)]
    [] ev.type = "vd" -> [sc EXCEPT !.state.vd = Some(ev.v)]
    [] ev.type = "id" -> [sc EXCEPT !.state.id = Some(ev.v)]
    [] ev.type = "extra" -> [sc EXCEPT !.state.extras = SetExtra(st.extras, ev.v[1])]
    [] OTHER -> sc

RECURSIVE applyEvents(_, _)
applyEvents(sc, evs) ==
  IF evs = <<>> THEN sc ELSE applyEvents(applyEvent(sc, Head(evs)), Tail(evs))

\* 'update' emissions of _applyEvent for a frame of k events
updatesPerEvent(k) == k

RECURSIVE processFrames(_, _, _)
\* `for (const f of frames)`: acc is [state, ctx, frames, updates, silent, threw]
processFrames(d, frames, acc) ==
  IF frames = <<>> THEN acc
  ELSE LET r == callParseFrame(d, Head(frames), acc.ctx) IN
       IF r.threw THEN [acc EXCEPT !.threw = TRUE]
       ELSE LET sc == applyEvents([state |-> acc.state, ctx |-> acc.ctx], r.events)
            IN  processFrames(d, Tail(frames),
                  [acc EXCEPT !.state = sc.state, !.ctx = sc.ctx,
                              !.frames = @ + 1,
                              !.updates = @ + updatesPerEvent(Len(r.events)),
                              !.events = @ + Len(r.events)])

(***************************************************************************)
(* Scheduling: promise continuations run before macrotasks.                *)
(***************************************************************************)
StartReady ==
  /\ writeLock.q # <<>>
  /\ Head(writeLock.q).st = "queued"
  /\ ensureConnected => ExpectRoom(Head(writeLock.q).cmd)

Busy == StartReady \/ mq # <<>>

\* ret is the outcome of the API call that returned or settled in this step
NoRet == "none"
Ret(op, res, arg) == res

NoTx == [k |-> "none", id |-> 0, role |-> "none", name |-> "none", live |-> TRUE,
         sub |-> TRUE, mid |-> FALSE, resumed |-> FALSE, conn |-> TRUE,
         chunk |-> <<>>]
NoRx == [ran |-> FALSE, frames |-> 0, updates |-> 0, events |-> 0, threw |-> FALSE]
\* rejected: the send() called in this step found the write chain rejected
\* stopPaused: the stopPolling() called in this step found polling paused by
\* a setFrequencyHz / setMode / setPTT call in progress
NoHist == [resumeDue |-> FALSE, rejected |-> FALSE, stopPaused |-> FALSE]

\* no driver method has been called directly
NoCall ==
  [op |-> "none", rx |-> <<>>, got |-> <<>>, in |-> <<>>, exp |-> <<>>, frames |-> <<>>,
   arg |-> Num(0), built |-> Threw("none"), dec |-> Events(<<>>), val |-> Null,
   objs |-> 0]

IoVars == <<driverId, port, reader, writer, rxBuf, running, ctx, state, readLoop, conn, disc>>
CtrlVars == <<polling, _pollRunId, pollIntervalMs, pollLoops, writeLock, mq, ops>>

\* the page makes one more API call
Called == calls < MaxCalls /\ calls' = calls + 1 /\ UNCHANGED <<drvCall, _drivers>>

MidOps(c) == {o \in 1..MaxOps : c.ops[o].kind # "none" /\ c.ops[o].phase = "mid"}

\* The callback send() chained runs: _ensureConnected, onCommandSent, and
\* writer.write(u8) begins.
StartWrite ==
  /\ UNCHANGED <<calls, drvCall, _drivers>>
  /\ StartReady
  /\ LET j == Head(writeLock.q) IN
     IF ~ensureConnected
     THEN /\ Commit(Cascade(Cur, "Not connected"))
          /\ driver' = driver
          /\ lastTx' = NoTx
     ELSE /\ driver' = onCommandSent(driver, j.cmd)
          /\ IF writer # "active"
             THEN /\ Commit(Cascade(Cur, "TypeError"))
                  /\ lastTx' = NoTx
             ELSE LET live == j.k = "poll" => pollLive(Cur, j.id)
                      c1 == [Cur EXCEPT !.lock.q[1].st = "writing"]
                      c2 == IF j.k = "poll" /\ ~live
                            THEN [c1 EXCEPT !.loops[j.id].late = Min(2, @ + 1)]
                            ELSE c1
                      c3 == IF j.k # "op" THEN c2
                            ELSE [c2 EXCEPT !.ops[j.id].phase =
                                    IF j.role = "set" THEN "mid" ELSE "post"]
                  IN  /\ Commit(c3)
                      /\ lastTx' = [k |-> j.k, id |-> j.id, role |-> j.role,
                                    name |-> j.cmd.name, live |-> live, sub |-> j.live,
                                    mid |-> (j.k = "poll" /\ MidOps(Cur) # {}),
                                    resumed |-> (j.k = "poll" /\ pollLoops[j.id].resumed),
                                    conn |-> (j.k = "raw" => j.id = 1),
                                    chunk |-> IF j.cmd.arr THEN <<"Array">>
                                              ELSE <<"Uint8Array">>]
  /\ ret' = NoRet /\ lastRx' = NoRx
  /\ UNCHANGED <<IoVars, hist>>

\* writer.write(u8) resolves
WriteResolve ==
  /\ UNCHANGED <<calls, drvCall, _drivers>>
  /\ ~Busy
  /\ writeLock.q # <<>> /\ Head(writeLock.q).st = "writing"
  /\ LET j == Head(writeLock.q) IN
     Commit([Cur EXCEPT !.lock.q = Tail(@), !.mq = Append(@, Settled(j.k, j.id, "ok"))])
  /\ ret' = NoRet /\ lastTx' = NoTx /\ lastRx' = NoRx /\ hist' = NoHist
  /\ UNCHANGED <<IoVars, driver>>

\* writer.write(u8) rejects
WriteReject ==
  /\ UNCHANGED <<calls, drvCall, _drivers>>
  /\ ~Busy
  /\ writeLock.q # <<>> /\ Head(writeLock.q).st = "writing"
  /\ Commit(Cascade(Cur, "WriteError"))
  /\ ret' = NoRet /\ lastTx' = NoTx /\ lastRx' = NoRx /\ hist' = NoHist
  /\ UNCHANGED <<IoVars, driver>>

ResumeReady(k) == ~StartReady /\ mq # <<>> /\ Head(mq).k = k

Popped == [Cur EXCEPT !.mq = Tail(@)]

\* the poll loop resumes after `await this.send(cmd)`
ResumePoll ==
  /\ UNCHANGED <<calls, drvCall, _drivers>>
  /\ ResumeReady("poll")
  /\ Commit(PollAfterSend(Popped, Head(mq).id, Head(mq).res))
  /\ ret' = NoRet /\ lastTx' = NoTx /\ lastRx' = NoRx
  /\ UNCHANGED <<IoVars, driver, hist>>

\* a setFrequencyHz / setMode / setPTT call resumes after `await this.send(...)`
ResumeOp ==
  /\ UNCHANGED <<calls, drvCall, _drivers>>
  /\ ResumeReady("op")
  /\ LET o == Head(mq).id
         c1 == OpAfterSend(Popped, o, Head(mq).res)
         ended == c1.ops[o].kind = "none"
     IN  /\ Commit(c1)
         /\ ret' = IF ended /\ ~ops[o].byDisc
                   THEN Ret(ops[o].kind, Head(mq).res, "none") ELSE NoRet
         /\ hist' = IF ended /\ ops[o].was /\ state.connected /\ disc.pc = "idle"
                    THEN [NoHist EXCEPT !.resumeDue = TRUE] ELSE hist
  /\ lastTx' = NoTx /\ lastRx' = NoRx
  /\ UNCHANGED <<IoVars, driver>>

\* the caller of send() sees it settle; the id of a raw send records whether
\* the controller was connected when send() was called
ResumeRaw ==
  /\ UNCHANGED <<calls, drvCall, _drivers>>
  /\ ResumeReady("raw")
  /\ Commit(Popped)
  /\ ret' = Ret("send", Head(mq).res, Head(mq).id)
  /\ lastTx' = NoTx /\ lastRx' = NoRx
  /\ UNCHANGED <<IoVars, driver, hist>>

\* sleep(perCmdDelay) between two poll commands elapses
TimerDelay(g) ==
  /\ UNCHANGED <<calls, drvCall, _drivers>>
  /\ pollLoops[g].pc = "delay"
  /\ ~Busy
  /\ Commit(PollFor(Cur, g, pollLoops[g].idx + 1))
  /\ ret' = NoRet /\ lastTx' = NoTx /\ lastRx' = NoRx /\ hist' = NoHist
  /\ UNCHANGED <<IoVars, driver>>

\* sleep(pollIntervalMs - dt) at the end of a poll cycle elapses
TimerSleep(g) ==
  /\ UNCHANGED <<calls, drvCall, _drivers>>
  /\ pollLoops[g].pc = "sleep"
  /\ ~Busy
  /\ Commit(PollIter(Cur, g))
  /\ ret' = NoRet /\ lastTx' = NoTx /\ lastRx' = NoRx /\ hist' = NoHist
  /\ UNCHANGED <<IoVars, driver>>

(***************************************************************************)
(* The public API, called by the page.                                     *)
(***************************************************************************)
PollArgs == {Num(0), Num(20000)}
ModeArgs == {"usb", "NOT-A-MODE", ""}
HzArgs == {Num(14074000), Num(0), Num(-5), NaN, Infinity}

\* startPolling(intervalMs)
StartPolling(arg) ==
  /\ Called
  /\ ~Busy /\ Room(1)
  /\ IF ~ensureConnected
     THEN /\ ret' = Ret("startPolling", "Not connected", arg)
          /\ emitted' = {}
          /\ UNCHANGED CtrlVars
     ELSE /\ Commit(startPolling(Cur, arg))
          /\ ret' = Ret("startPolling", "ok", arg)
  /\ lastTx' = NoTx /\ lastRx' = NoRx /\ hist' = NoHist
  /\ UNCHANGED <<IoVars, driver>>

\* stopPolling()
\* the setFrequencyHz / setMode / setPTT calls in progress that paused polling
PausedOps == {o \in 1..MaxOps : ops[o].kind # "none" /\ ops[o].was}

StopPolling ==
  /\ Called
  /\ ~Busy /\ Room(IF polling THEN 1 ELSE 0)
  /\ Commit(stopPolling(Cur))
  /\ ret' = Ret("stopPolling", "ok", "none")
  /\ hist' = [NoHist EXCEPT !.stopPaused = ~polling /\ PausedOps # {}]
  /\ lastTx' = NoTx /\ lastRx' = NoRx
  /\ UNCHANGED <<IoVars, driver>>

LowestFree == CHOOSE o \in FreeOps : \A p \in FreeOps : o <= p

\* setFrequencyHz / setMode / setPTT: _ensureConnected(), then the command is
\* built and sent inside _withPollingPaused
UserOp(kind, built, arg) ==
  /\ Called
  /\ ~Busy /\ FreeOps # {} /\ Room(IF polling THEN 2 ELSE 0)
  /\ IF ~ensureConnected
     THEN /\ ret' = Ret(kind, "Not connected", arg)
          /\ emitted' = {}
          /\ hist' = NoHist
          /\ UNCHANGED CtrlVars
     ELSE /\ Commit(OpBegin(Cur, LowestFree, kind, built, FALSE))
          /\ ret' = IF built.ok THEN NoRet ELSE Ret(kind, built.err, arg)
          /\ hist' = [NoHist EXCEPT !.resumeDue = polling /\ ~built.ok]
  /\ lastTx' = NoTx /\ lastRx' = NoRx
  /\ UNCHANGED <<IoVars, driver>>

SetFrequencyHz(hz) == UserOp("setFrequencyHz", cmdSetFreqHz(driverId, hz), hz)
SetMode(m) == UserOp("setMode", cmdSetMode(driverId, m), m)
SetPTT(on) == UserOp("setPTT", Built(cmdSetPTT(driverId, on)), on)

RawCmd == [cmdRead(driverId, pollSequenceNames(driverId)[1]) EXCEPT !.name = "raw"]

\* send(u8) called directly
Send ==
  /\ Called
  /\ ~Busy /\ Len(writeLock.q) < MaxQueue
  /\ Commit(send(Cur, "raw", IF state.connected THEN 1 ELSE 0, "raw", RawCmd))
  /\ hist' = [NoHist EXCEPT !.rejected = writeLock.err # "none"]
  /\ ret' = NoRet /\ lastTx' = NoTx /\ lastRx' = NoRx
  /\ UNCHANGED <<IoVars, driver>>

(***************************************************************************)
(* The control descriptors of controlsSchema() and their apply actions.    *)
(***************************************************************************)
\* the methods class RadioController defines
RadioControllerMethods ==
  {"on", "off", "connectWithPicker", "connectRemembered", "disconnect", "send",
   "startPolling", "stopPolling", "setFrequencyHz", "setFrequencyMHz", "setMode", "setPTT"}

Control(id, apply) == [id |-> id, apply |-> apply]

\* driver.controlsSchema(): each descriptor's id and the controller method
\* its apply action calls; the IC-9700 and FT-857D drivers define none
controlsSchema(d) ==
  CASE d = "icom.ic7300" ->
         <<Control("band", "setFrequencyHz"), Control("mode", "setMode"),
           Control("af", "sendCommand"), Control("rf", "sendCommand"),
           Control("sql", "sendCommand"), Control("ptt", "setPTT"),
           Control("txpwr", "sendCommand"), Control("compression", "sendCommand"),
           Control("monitor", "sendCommand"), Control("filterbw", "sendCommand"),
           Control("nb", "sendCommand"), Control("autonotch", "sendCommand"),
           Control("preamp", "sendCommand"), Control("agc", "sendCommand"),
           Control("rit", "sendCommand"), Control("xit", "sendCommand"),
           Control("vfolock", "sendCommand"), Control("tuningstep", "sendCommand")>>
    [] d = "yaesu.ft991a" ->
         <<Control("band", "setFrequencyHz"), Control("mode", "setMode"),
           Control("ptt", "setPTT"), Control("rfpwr", "sendCommand")>>
    [] OTHER -> <<>>

\* the 'band' control: (band.min + band.max) / 2 of the 20m band
BandMidHz == (14000000 + 14350000) \div 2

\* descriptor.apply(radio, value) with a value the control offers: the 20m
\* band button, the USB mode button, PTT on, a number in range.  Calling a
\* method the controller does not define raises a TypeError before anything
\* is sent.
ApplyControl(i) ==
  /\ calls < MaxCalls /\ driver.id # "none" /\ ~Busy
  /\ LET c == controlsSchema(driverId)[i] IN
     IF c.apply \notin RadioControllerMethods
     THEN /\ Called
          /\ ret' = Ret("apply", "TypeError", c.id)
          /\ emitted' = {}
          /\ lastTx' = NoTx /\ lastRx' = NoRx /\ hist' = NoHist
          /\ UNCHANGED <<CtrlVars, IoVars, driver>>
     ELSE CASE c.apply = "setFrequencyHz" -> SetFrequencyHz(Num(BandMidHz))
            [] c.apply = "setMode" -> SetMode("USB")
            [] OTHER -> SetPTT(TRUE)

(***************************************************************************)
(* disconnect(), in the segments between its awaits, and _connectInternal. *)
(***************************************************************************)
\* the reset at the end of disconnect(); a connect that awaited it goes on to
\* port.open()
DiscReset(c, by) ==
  /\ Commit(Emit([c EXCEPT !.lock = FreshLock], "disconnected"))
  /\ port' = (by = "connect")
  /\ reader' = "null" /\ writer' = "null"
  /\ rxBuf' = <<>>
  /\ driver' = IF by = "connect" THEN FreshDriver ELSE NoDriver
  /\ ctx' = FreshCtx
  /\ state' = FreshState
  /\ running' = FALSE
  /\ readLoop' = IF readLoop = "reading" THEN "ended" ELSE readLoop
  /\ disc' = [pc |-> "idle", by |-> "none"]
  /\ conn' = IF by = "connect" THEN [pc |-> "open"] ELSE conn
  /\ ret' = IF by = "connect" THEN NoRet ELSE Ret("disconnect", "ok", "none")
  /\ lastTx' = NoTx /\ lastRx' = NoRx /\ hist' = NoHist
  /\ UNCHANGED driverId

\* from stopPolling() to `await this.reader.cancel()` / `await this.port.close()`
DiscStop(c, by) ==
  IF reader = "null" /\ ~port THEN DiscReset(stopPolling(c), by)
  ELSE /\ Commit(stopPolling(c))
       /\ running' = FALSE
       /\ writer' = IF reader = "null" /\ writer # "null" THEN "released" ELSE writer
       /\ disc' = [pc |-> IF reader = "null" THEN "close" ELSE "cancel", by |-> by]
       /\ conn' = IF by = "connect" THEN [pc |-> "disc"] ELSE conn
       /\ ret' = NoRet /\ lastTx' = NoTx /\ lastRx' = NoRx /\ hist' = NoHist
       /\ UNCHANGED <<driverId, driver, port, reader, rxBuf, ctx, state, readLoop>>

\* disconnect() up to its first await
DiscStart(by) ==
  /\ Called
  /\ ~Busy /\ disc.pc = "idle" /\ conn.pc = "idle"
  /\ IF state.connected /\ writer # "null" /\ driver.id # "none"
     THEN /\ FreeOps # {} /\ Room(IF polling THEN 3 ELSE 1)
          /\ Commit(OpBegin(Cur, LowestFree, "setPTT", Built(cmdSetPTT(driverId, FALSE)), TRUE))
          /\ disc' = [pc |-> "ptt", by |-> by]
          /\ conn' = IF by = "connect" THEN [pc |-> "disc"] ELSE conn
          /\ ret' = NoRet /\ lastTx' = NoTx /\ lastRx' = NoRx /\ hist' = NoHist
          /\ UNCHANGED <<driverId, driver, port, reader, writer, rxBuf, running, ctx,
                         state, readLoop>>
     ELSE Room(IF polling THEN 1 ELSE 0) /\ DiscStop(Cur, by)

Disconnect == DiscStart("user")

\* connectWithPicker() / _connectInternal(port): `await this.disconnect()` first
Connect == DiscStart("connect")

\* disconnect() resumes after `await this.setPTT(false)`
ResumeDisc ==
  /\ UNCHANGED <<calls, drvCall, _drivers>>
  /\ ResumeReady("disc")
  /\ DiscStop(Popped, disc.by)

\* a disconnect that waits for the receive loop to end by itself instead of
\* cancelling its pending read
ReaderCancelSettleAwaitsLoop ==
  /\ UNCHANGED <<calls, drvCall, _drivers>>
  /\ ~Busy /\ disc.pc = "cancel"
  /\ readLoop # "reading"
  /\ reader' = "released"
  /\ writer' = IF writer # "null" THEN "released" ELSE writer
  /\ readLoop' = readLoop
  /\ disc' = [disc EXCEPT !.pc = "close"]
  /\ emitted' = {}
  /\ ret' = NoRet /\ lastTx' = NoTx /\ lastRx' = NoRx /\ hist' = NoHist
  /\ UNCHANGED <<CtrlVars, driverId, driver, port, rxBuf, running, ctx, state, conn>>

\* reader.cancel() settles: the pending read resolves with done, the locks are
\* released and port.close() is awaited
ReaderCancelSettle ==
  /\ UNCHANGED <<calls, drvCall, _drivers>>
  /\ ~Busy /\ disc.pc = "cancel"
  /\ reader' = "released"
  /\ writer' = IF writer # "null" THEN "released" ELSE writer
  /\ readLoop' = IF readLoop = "reading" THEN "ended" ELSE readLoop
  /\ disc' = [disc EXCEPT !.pc = "close"]
  /\ emitted' = {}
  /\ ret' = NoRet /\ lastTx' = NoTx /\ lastRx' = NoRx /\ hist' = NoHist
  /\ UNCHANGED <<CtrlVars, driverId, driver, port, rxBuf, running, ctx, state, conn>>

\* port.close() settles, once no write is pending on the port
PortCloseSettle ==
  /\ UNCHANGED <<calls, drvCall, _drivers>>
  /\ ~Busy /\ disc.pc = "close"
  /\ writeLock.q = <<>>
  /\ DiscReset(Cur, disc.by)

\* port.open(...) resolves; setSignals is awaited next
PortOpenResolve ==
  /\ UNCHANGED <<calls, drvCall, _drivers>>
  /\ ~Busy /\ conn.pc = "open"
  /\ conn' = [pc |-> "signals"]
  /\ emitted' = {}
  /\ ret' = NoRet /\ lastTx' = NoTx /\ lastRx' = NoRx /\ hist' = NoHist
  /\ UNCHANGED <<CtrlVars, driverId, driver, port, reader, writer, rxBuf, running, ctx,
                 state, readLoop, disc>>

\* port.open(...) rejects: _connectInternal rejects
PortOpenReject ==
  /\ UNCHANGED <<calls, drvCall, _drivers>>
  /\ ~Busy /\ conn.pc = "open"
  /\ conn' = [pc |-> "idle"]
  /\ emitted' = {}
  /\ ret' = Ret("connect", "open failed", "none")
  /\ lastTx' = NoTx /\ lastRx' = NoRx /\ hist' = NoHist
  /\ UNCHANGED <<CtrlVars, driverId, driver, port, reader, writer, rxBuf, running, ctx,
                 state, readLoop, disc>>

\* setSignals settles either way: writer and reader are taken, the controller
\* is connected and _readLoop() starts
SetSignalsSettle ==
  /\ UNCHANGED <<calls, drvCall, _drivers>>
  /\ ~Busy /\ conn.pc = "signals"
  /\ writer' = "active" /\ reader' = "active"
  /\ running' = TRUE
  /\ state' = [state EXCEPT !.connected = TRUE]
  /\ readLoop' = "reading"
  /\ conn' = [pc |-> "idle"]
  /\ emitted' = {"connected"}
  /\ ret' = Ret("connect", "ok", "none")
  /\ lastTx' = NoTx /\ lastRx' = NoRx /\ hist' = NoHist
  /\ UNCHANGED <<CtrlVars, driverId, driver, port, rxBuf, ctx, disc>>

\* getWriter() or getReader() throws after setSignals settled: _connectInternal
\* rejects before `this.state.connected = true`; a writer taken before
\* getReader() threw stays in this.writer
AcquireThrowAfterConnected ==
  /\ UNCHANGED <<calls, drvCall, _drivers>>
  /\ ~Busy /\ conn.pc = "signals"
  /\ \E at \in {"getWriter", "getReader"} :
       writer' = IF at = "getReader" THEN "active" ELSE writer
  /\ state' = [state EXCEPT !.connected = TRUE]
  /\ conn' = [pc |-> "idle"]
  /\ emitted' = {}
  /\ ret' = Ret("connect", "acquire failed", "none")
  /\ lastTx' = NoTx /\ lastRx' = NoRx /\ hist' = NoHist
  /\ UNCHANGED <<CtrlVars, driverId, driver, port, reader, rxBuf, running, ctx,
                 readLoop, disc>>

AcquireThrow ==
  /\ UNCHANGED <<calls, drvCall, _drivers>>
  /\ ~Busy /\ conn.pc = "signals"
  /\ \E at \in {"getWriter", "getReader"} :
       writer' = IF at = "getReader" THEN "active" ELSE writer
  /\ conn' = [pc |-> "idle"]
  /\ emitted' = {}
  /\ ret' = Ret("connect", "acquire failed", "none")
  /\ lastTx' = NoTx /\ lastRx' = NoRx /\ hist' = NoHist
  /\ UNCHANGED <<CtrlVars, driverId, driver, port, reader, rxBuf, running, ctx,
                 state, readLoop, disc>>

(***************************************************************************)
(* RadioController: the receive loop.                                      *)
(***************************************************************************)
\* reader.read() resolves with a chunk of bytes
ReadValue(chunk) ==
  /\ UNCHANGED <<calls, drvCall, _drivers>>
  /\ ~Busy
  /\ readLoop = "reading" /\ reader = "active"
  /\ Len(rxBuf) + Len(chunk) <= MaxRxBuf
  /\ IF ~running
     THEN /\ readLoop' = "ended"
          /\ emitted' = {} /\ lastRx' = NoRx
          /\ UNCHANGED <<rxBuf, driver, state, ctx, running>>
     ELSE IF driver.id = "none"
     THEN /\ readLoop' = "ended"
          /\ rxBuf' = rxBuf \o chunk
          /\ emitted' = {} /\ lastRx' = NoRx
          /\ UNCHANGED <<driver, state, ctx, running>>
     ELSE LET x == extractFrames(driver, rxBuf \o chunk)
              r == processFrames(driver.id, x.frames,
                                 [state |-> state, ctx |-> ctx, frames |-> 0, updates |-> 0,
                                  events |-> 0, threw |-> FALSE])
          IN  /\ rxBuf' = x.buf
              /\ driver' = x.drv
              /\ state' = r.state
              /\ ctx' = r.ctx
              /\ lastRx' = [ran |-> TRUE, frames |-> Len(x.frames), updates |-> r.updates,
                            events |-> r.events, threw |-> r.threw]
              /\ readLoop' = IF r.threw THEN "ended" ELSE "reading"
              /\ running' = IF r.threw THEN FALSE ELSE running
              /\ emitted' = (IF r.threw THEN {"error"} ELSE {})
                            \cup (IF r.updates > 0 THEN {"update"} ELSE {})
  /\ ret' = NoRet /\ lastTx' = NoTx /\ hist' = NoHist
  /\ UNCHANGED <<CtrlVars, driverId, port, reader, writer, conn, disc>>

\* reader.read() resolves with done: the loop ends
ReadDone ==
  /\ UNCHANGED <<calls, drvCall, _drivers>>
  /\ ~Busy
  /\ readLoop = "reading" /\ reader = "active"
  /\ readLoop' = "ended"
  /\ emitted' = {}
  /\ ret' = NoRet /\ lastTx' = NoTx /\ lastRx' = NoRx /\ hist' = NoHist
  /\ UNCHANGED <<CtrlVars, driverId, driver, port, reader, writer, rxBuf, running, ctx,
                 state, conn, disc>>

\* reader.read() rejects: _readLoop rejects, its catch emits 'error'
ReadThrow ==
  /\ UNCHANGED <<calls, drvCall, _drivers>>
  /\ ~Busy
  /\ readLoop = "reading" /\ reader = "active"
  /\ readLoop' = "ended"
  /\ running' = FALSE
  /\ emitted' = {"error"}
  /\ ret' = NoRet /\ lastTx' = NoTx /\ lastRx' = NoRx /\ hist' = NoHist
  /\ UNCHANGED <<CtrlVars, driverId, driver, port, reader, writer, rxBuf, ctx, state,
                 conn, disc>>

(***************************************************************************)
(* The bytes the radio sends back: per driver one well-formed reply and,   *)
(* for Icom (the OK frame FB) and the FT-991A ('?;'), one that decodes to  *)
(* no event.                                                               *)
(***************************************************************************)
RxChunks(d) ==
  CASE IsIcom(d) -> {<<254, 254, ctrlAddr, radioAddr(d), 4, 1, 253>>,
                     <<254, 254, ctrlAddr, radioAddr(d), 251, 253>>}
    [] d = "yaesu.ft991a" -> {<<77, 68, 48, 50, Semi>>, <<63, Semi>>}
    [] OTHER -> {<<1, 64, 116, 0, 1>>}

(***************************************************************************)
(* The driver registry.  A factory is [class, reg]: the driver class its   *)
(* arrow function instantiates and the serial number of the registerDriver *)
(* call that handed it in.  A driver instance is [class, by, obj]: by is   *)
(* the factory that made it and obj the identity of the new object.        *)
(***************************************************************************)
Factory(class, reg) == [class |-> class, reg |-> reg]
NotAFunction == Factory("none", 0)

\* the registry once webcat-base.js and the driver scripts have been loaded
LoadedDrivers ==
  [id \in DriverIds |->
     [id |-> id,
      factory |-> Factory(id, CASE id = "icom.ic9700" -> 1 [] id = "icom.ic7300" -> 2
                                [] id = "yaesu.ft991a" -> 3 [] OTHER -> 4)]]

\* the serial number of the next registerDriver call
NextReg(reg) ==
  1 + (CHOOSE n \in {reg[i].factory.reg : i \in DOMAIN reg} :
         \A j \in DOMAIN reg : reg[j].factory.reg <= n)

\* registerDriver(id, factory): [ok, err, reg]
registerDriver(reg, id, factory) ==
  IF id = "" THEN [ok |-> FALSE, err |-> "driver id must be a string", reg |-> reg]
  ELSE IF factory = NotAFunction
  THEN [ok |-> FALSE, err |-> "driver factory must be a function", reg |-> reg]
  ELSE [ok |-> TRUE, err |-> "none",
        reg |-> [i \in DOMAIN reg \cup {id} |->
                   IF i = id THEN [id |-> id, factory |-> factory] ELSE reg[i]]]

\* createDriver that hands back the instance made first
createDriverCached(reg, id, obj) ==
  IF id \notin DOMAIN reg
  THEN [ok |-> FALSE, err |-> "Unknown driver", inst |-> Null]
  ELSE [ok |-> TRUE, err |-> "none",
        inst |-> Some([class |-> reg[id].factory.class, by |-> reg[id].factory, obj |-> 1])]

\* createDriver(id): [ok, err, inst]; obj is the identity `new` gives the
\* object the factory constructs
createDriver(reg, id, obj) ==
  IF id \notin DOMAIN reg
  THEN [ok |-> FALSE, err |-> "Unknown driver", inst |-> Null]
  ELSE [ok |-> TRUE, err |-> "none",
        inst |-> Some([class |-> reg[id].factory.class, by |-> reg[id].factory, obj |-> obj])]

Init ==
  /\ driverId \in DriverIds
  /\ driver = [id |-> driverId, expect |-> <<>>]
  /\ port = FALSE
  /\ reader = "null" /\ writer = "null"
  /\ rxBuf = <<>>
  /\ running = FALSE
  /\ writeLock = FreshLock
  /\ polling = FALSE
  /\ _pollRunId = 0
  /\ pollIntervalMs = DefaultPollMs
  /\ pollLoops = [g \in 1..MaxRunId |-> NoLoop]
  /\ ctx = FreshCtx
  /\ state = FreshState
  /\ ops = [o \in 1..MaxOps |-> NoOp]
  /\ mq = <<>>
  /\ readLoop = "none"
  /\ conn = [pc |-> "idle"]
  /\ disc = [pc |-> "idle", by |-> "none"]
  /\ emitted = {}
  /\ ret = NoRet
  /\ lastTx = NoTx
  /\ lastRx = NoRx
  /\ hist = NoHist
  /\ calls = 0
  /\ drvCall = NoCall
  /\ _drivers = LoadedDrivers

Next ==
  \/ StartWrite
  \/ WriteResolve
  \/ WriteReject
  \/ ResumePoll
  \/ ResumeOp
  \/ ResumeRaw
  \/ ResumeDisc
  \/ \E g \in 1..MaxRunId : TimerDelay(g)
  \/ \E g \in 1..MaxRunId : TimerSleep(g)
  \/ \E arg \in PollArgs : StartPolling(arg)
  \/ StopPolling
  \/ \E hz \in HzArgs : SetFrequencyHz(hz)
  \/ \E m \in ModeArgs : SetMode(m)
  \/ \E on \in BOOLEAN : SetPTT(on)
  \/ Send
  \/ \E i \in DOMAIN controlsSchema(driverId) : ApplyControl(i)
  \/ Connect
  \/ Disconnect
  \/ ReaderCancelSettle
  \/ PortCloseSettle
  \/ PortOpenResolve
  \/ PortOpenReject
  \/ SetSignalsSettle
  \/ AcquireThrow
  \/ \E chunk \in RxChunks(driverId) : ReadValue(chunk)
  \/ ReadDone
  \/ ReadThrow

Spec == Init /\ [][Next]_vars

(***************************************************************************)
(* The controller under the scheduling its code relies on.  What the event *)
(* loop and the transport owe the program: a chained send() callback runs  *)
(* (StartWrite), a transport write settles one way or the other, the       *)
(* continuation of a settled await runs (the Resume actions), and          *)
(* reader.cancel() and port.close() settle.  The settlements are           *)
(* macrotasks that wait for the microtask queue to drain (~Busy), which a  *)
(* running poll loop fills again and again, so their fairness is strong.   *)
(* Nothing is owed about bytes arriving, timers of poll loops, or further  *)
(* calls by the page.  The drivers are the IC-7300 (no delay between poll  *)
(* commands) and the FT-991A (20 ms): disconnect() uses the driver only    *)
(* through cmdSetPTT, and the FT-857D expectation queue is cut at          *)
(* MaxExpect, which would stop a write that the code lets through.  The    *)
(* page makes at most MaxLiveCalls API calls: connect, disconnect and one  *)
(* more, which may fall anywhere before, between or during the two.        *)
(***************************************************************************)
Fairness ==
  /\ WF_vars(StartWrite)
  /\ SF_vars(WriteResolve \/ WriteReject)
  /\ WF_vars(ResumePoll) /\ WF_vars(ResumeOp) /\ WF_vars(ResumeRaw) /\ WF_vars(ResumeDisc)
  /\ SF_vars(ReaderCancelSettle)
  /\ SF_vars(PortCloseSettle)

MaxLiveCalls == 3
LiveCall == calls < MaxLiveCalls

\* Next with the page's calls bounded by MaxLiveCalls
NextLive ==
  \/ StartWrite
  \/ WriteResolve
  \/ WriteReject
  \/ ResumePoll
  \/ ResumeOp
  \/ ResumeRaw
  \/ ResumeDisc
  \/ \E g \in 1..MaxRunId : TimerDelay(g)
  \/ \E g \in 1..MaxRunId : TimerSleep(g)
  \/ LiveCall /\ \E arg \in PollArgs : StartPolling(arg)
  \/ LiveCall /\ StopPolling
  \/ LiveCall /\ \E hz \in HzArgs : SetFrequencyHz(hz)
  \/ LiveCall /\ \E m \in ModeArgs : SetMode(m)
  \/ LiveCall /\ \E on \in BOOLEAN : SetPTT(on)
  \/ LiveCall /\ Send
  \/ LiveCall /\ \E i \in DOMAIN controlsSchema(driverId) : ApplyControl(i)
  \/ LiveCall /\ Connect
  \/ LiveCall /\ Disconnect
  \/ ReaderCancelSettle
  \/ PortCloseSettle
  \/ PortOpenResolve
  \/ PortOpenReject
  \/ SetSignalsSettle
  \/ AcquireThrow
  \/ \E chunk \in RxChunks(driverId) : ReadValue(chunk)
  \/ ReadDone
  \/ ReadThrow

InitLive == Init /\ driverId \in {"icom.ic7300", "yaesu.ft991a"}

SpecLive == InitLive /\ [][NextLive]_vars /\ Fairness

(***************************************************************************)
(* The drivers on their own: the driver instance made by createDriver and  *)
(* a receive buffer, with the driver methods called directly, as the       *)
(* tests under src/tests call them.  drvCall.rx is every byte appended to  *)
(* the buffer so far and drvCall.got every frame extractFrames returned.   *)
(***************************************************************************)
MaxDrvRx == 7
MaxDrvExpect == 2
MaxOffsetArg == 10001

DrvVars ==
  <<driverId, port, reader, writer, running, writeLock, polling, _pollRunId,
    pollIntervalMs, pollLoops, ctx, state, ops, mq, readLoop, conn, disc, emitted, ret,
    lastTx, lastRx, hist, calls>>

\* bytes appended to the buffer: for Icom the preamble byte FE, the end byte
\* FD and a plain byte; for the FT-991A ';' and 'A'; for the FT-857D two
\* data bytes
DrvBytes(d) ==
  CASE IsIcom(d) -> {254, 253, 1}
    [] d = "yaesu.ft991a" -> {Semi, 65}
    [] OTHER -> {1, 100}

\* commands handed to onCommandSent: the three reads and two writes
DrvCommands(d) ==
  {cmdRead(d, n) : n \in {"cmdReadFreqMode", "cmdReadRxStatus", "cmdReadTxStatus"}}
    \cup {cmdSetPTT(d, TRUE), cmdSetFreqHz(d, Num(14074000)).cmd}

DrvHzArgs ==
  {Num(1), Num(10), Num(14074000), Num(14074005), Num(145500000), Num(999999990),
   Num(999999999), Num(1234567890), Num(0), NaN}

\* rxBuf.push(b)
DrvReceive(b) ==
  /\ Len(drvCall.rx) < MaxDrvRx
  /\ rxBuf' = Append(rxBuf, b)
  /\ drvCall' = [NoCall EXCEPT !.op = "push", !.rx = Append(drvCall.rx, b),
                               !.got = drvCall.got]
  /\ UNCHANGED <<driver, _drivers, DrvVars>>

\* driver.extractFrames(rxBuf)
DrvExtractFrames ==
  /\ LET x == extractFrames(driver, rxBuf) IN
       /\ rxBuf' = x.buf
       /\ driver' = x.drv
       /\ drvCall' = [NoCall EXCEPT !.op = "extractFrames", !.rx = drvCall.rx,
                                    !.got = drvCall.got \o x.frames, !.in = rxBuf,
                                    !.exp = driver.expect, !.frames = x.frames]
  /\ UNCHANGED <<_drivers, DrvVars>>

\* driver.onCommandSent(u8); only the FT-857D driver has the method.  At most
\* MaxDrvExpect expectations are registered over a run.
DrvOnCommandSent(cmd) ==
  /\ driverId = "yaesu.ft857d"
  /\ Len(drvCall.got) + Len(driver.expect) < MaxDrvExpect
  /\ driver' = onCommandSent(driver, cmd)
  /\ drvCall' = [NoCall EXCEPT !.op = "onCommandSent", !.rx = drvCall.rx,
                               !.got = drvCall.got, !.exp = driver.expect,
                               !.built = Built(cmd)]
  /\ UNCHANGED <<rxBuf, _drivers, DrvVars>>

\* the reply to a frequency read that carries the frequency bytes of the
\* command frame: Icom 03 <5 BCD bytes>, FT-991A FA<9 digits>;, FT-857D
\* <4 BCD bytes> <mode> for the expectation of opcode 0x03
FreqResponse(d, frame) ==
  CASE IsIcom(d) ->
         U8Val(<<254, 254, ctrlAddr, radioAddr(d), 3>> \o SubSeq(frame, 6, 10) \o <<253>>)
    [] d = "yaesu.ft991a" -> U8Val(<<70, 65>> \o SubSeq(frame, 3, 11) \o <<Semi>>)
    [] OTHER -> ObjVal(SubSeq(frame, 1, 4) \o <<1>>, Expect("freqmode", 5, 0))

\* driver.cmdSetFreqHz(hz), and parseFrame on the reply with the same bytes
DrvCmdSetFreqHz(hz) ==
  /\ drvCall.op = "none"
  /\ LET built == cmdSetFreqHz(driverId, hz) IN
       drvCall' = [NoCall EXCEPT
                     !.op = "cmdSetFreqHz", !.arg = hz, !.built = built,
                     !.dec = IF built.ok
                             THEN parseFrame(driverId,
                                             FreqResponse(driverId, built.cmd.frames[1]),
                                             FreshCtx)
                             ELSE Events(<<>>)]
  /\ UNCHANGED <<driver, rxBuf, _drivers, DrvVars>>

\* IC-7300 cmdSetRIT (sub-command 07) and cmdSetXIT (08)
IcomCmdSetOffsetUnclamped(d, sub, raw) ==
  U8("cmdSetOffset", buildFrame(d, <<20, sub, raw % 256, (raw \div 256) % 256>>))

IcomCmdSetOffset(d, sub, raw) ==
  LET offset == clamp(raw, -9999, 9999)
  IN  U8("cmdSetOffset", buildFrame(d, <<20, sub, offset % 256, (offset \div 256) % 256>>))

\* driver.cmdSetRIT(v) / cmdSetXIT(v) of the IC-7300, and parseFrame on the
\* frame the radio answers with the same four payload bytes
DrvCmdSetOffset ==
  /\ drvCall.op = "none" /\ driverId = "icom.ic7300"
  /\ \E sub \in {7, 8}, v \in (-MaxOffsetArg..MaxOffsetArg) \cup {20000, -20000, 50000} :
       LET cmd == IcomCmdSetOffset(driverId, sub, v)
           f == cmd.frames[1]
       IN  drvCall' = [NoCall EXCEPT
                         !.op = IF sub = 7 THEN "cmdSetRIT" ELSE "cmdSetXIT",
                         !.arg = Num(v), !.built = Built(cmd),
                         !.dec = parseFrame(driverId,
                                            U8Val(<<254, 254, ctrlAddr, radioAddr(driverId)>>
                                                  \o SubSeq(f, 5, Len(f))),
                                            FreshCtx)]
  /\ UNCHANGED <<driver, rxBuf, _drivers, DrvVars>>

\* bytes of the frames handed to parseFrame and of the payloads handed to
\* _decodeLevel0to255: BCD bytes, bytes with a nibble above 9, and the bytes
\* around the BCD value 255
DrvFreqBytes == {0, 69, 10, 160}
DrvLevelBytes == {0, 1, 2, 85, 86, 153, 10, 160, 255}

\* frames handed to parseFrame.  Icom: a frequency reply 03 <b1..b5> (the top
\* byte 00 or 01), the frequency reply cut short, a meter (15 sub) or level
\* (14 sub) reply with zero to two level bytes, and the bus echo of the read
\* commands.  FT-857D: the five bytes cut for a frequency/mode expectation.
\* FT-991A: FA014074000; and FA;
DrvFrames(d) ==
  CASE IsIcom(d) ->
         LET hdr == <<254, 254, ctrlAddr, radioAddr(d)>>
             levels == {<<>>} \cup {<<a>> : a \in DrvLevelBytes}
                         \cup {<<a, b>> : a, b \in DrvLevelBytes}
         IN  {U8Val(hdr \o <<3, b1, b2, b3, b4, b5, 253>>) :
                b1, b2, b3, b4 \in DrvFreqBytes, b5 \in {0, 1}}
               \cup {U8Val(hdr \o <<3>> \o s \o <<253>>) : s \in {<<>>, <<0>>, <<0, 16, 0, 0>>}}
               \cup {U8Val(hdr \o <<c[1], c[2]>> \o p \o <<253>>) :
                       c \in {<<21, 2>>, <<21, 17>>, <<20, 10>>, <<20, 1>>}, p \in levels}
               \cup {U8Val(buildFrame(d, p)) : p \in {<<21, 2>>, <<21, 17>>, <<20, 10>>}}
    [] d = "yaesu.ft991a" ->
         {U8Val(<<70, 65, 48, 49, 52, 48, 55, 52, 48, 48, 48, Semi>>), U8Val(<<70, 65, Semi>>)}
    [] OTHER ->
         {ObjVal(<<b1, b2, b3, b4, 1>>, Expect("freqmode", 5, 0)) :
            b1, b2, b3, b4 \in DrvFreqBytes}

\* driver.parseFrame(f): the events of one frame, as the receive loop gets
\* them before it applies them
DrvParseFrame ==
  /\ drvCall.op = "none"
  /\ \E f \in DrvFrames(driverId) :
       drvCall' = [NoCall EXCEPT !.op = "parseFrame", !.in = f.bytes,
                                 !.dec = parseFrame(driverId, f, FreshCtx)]
  /\ UNCHANGED <<driver, rxBuf, _drivers, DrvVars>>

\* driver._decodeLevel0to255(data) of the Icom drivers
DrvDecodeLevel ==
  /\ drvCall.op = "none" /\ IsIcom(driverId)
  /\ \E data \in {<<>>} \cup {<<a>> : a \in DrvLevelBytes}
                   \cup {<<a, b>> : a, b \in DrvLevelBytes}
                   \cup {<<a, b, c>> : a, b, c \in DrvLevelBytes} :
       drvCall' = [NoCall EXCEPT !.op = "_decodeLevel0to255", !.in = data,
                                 !.val = IcomDecodeLevel0to255(data)]
  /\ UNCHANGED <<driver, rxBuf, _drivers, DrvVars>>

\* IcomIC7300Driver.availableModes()
availableModes ==
  <<"LSB", "USB", "AM", "CW", "RTTY", "FM", "CW-R", "RTTY-R", "DV", "DD",
    "LSB-D", "USB-D", "AM-D", "CW-D", "RTTY-D", "FM-D">>

\* driver.cmdSetMode(m) of the IC-7300, for the names of availableModes(),
\* the names the controller is given, and a data-mode name that parseFrame
\* reports but the encoder's table does not hold
DrvCmdSetMode ==
  /\ drvCall.op = "none" /\ driverId = "icom.ic7300"
  /\ \E m \in {availableModes[i] : i \in DOMAIN availableModes} \cup ModeArgs \cup {"CWR-D"} :
       drvCall' = [NoCall EXCEPT !.op = "cmdSetMode", !.val = Some(m),
                                 !.built = cmdSetMode(driverId, m)]
  /\ UNCHANGED <<driver, rxBuf, _drivers, DrvVars>>

\* startPolling called MaxPollCalls times in a row with arguments of every
\* kind (0, NaN as Number() of a non-numeric value, negative, below, at and
\* above the limits, very large, Infinity), on a driver whose
\* interCommandDelayMs option is opt, the poll cycle having taken dt ms.
\* val is <<previous interval, argument, pollIntervalMs, number of the call,
\* perCmdDelay, the sleep at the end of the cycle>>.
MaxPollCalls == 3
PollArgsWide ==
  {Num(0), NaN, Num(-5), Num(1), Num(19), Num(20), Num(500), Num(10000), Num(10001),
   Num(2000000000), Infinity}
DelayOpts == {Num(0), Num(-5), Num(20), Num(251), Infinity, NaN}
ElapsedMs == {0, 19, 250, 20000}

DrvStartPolling ==
  /\ drvCall.op \in {"none", "startPolling"}
  /\ LET n == IF drvCall.op = "none" THEN 0 ELSE drvCall.val[4]
         prev == IF drvCall.op = "none" THEN pollIntervalMs ELSE drvCall.val[3]
     IN  /\ n < MaxPollCalls
         /\ \E arg \in PollArgsWide, opt \in DelayOpts, dt \in ElapsedMs :
              LET ms == pollIntervalFrom(arg, prev) IN
              drvCall' = [NoCall EXCEPT !.op = "startPolling",
                                        !.val = <<prev, arg, ms, n + 1, perCmdDelayFrom(opt),
                                                  tickSleepMs(ms, dt)>>]
  /\ UNCHANGED <<driver, rxBuf, _drivers, DrvVars>>

\* snapshots _applyEvent is applied to: the one after construction or
\* disconnect, and one with every field and two extras set
DrvSnapshots ==
  <<FreshState,
    [connected |-> TRUE, ptt |-> Some(FALSE), freqHz |-> Some(7100000), mode |-> Some("LSB"),
     smeterRaw |-> Some(3), swr |-> Some(1), po |-> Some(2), rfpwr |-> Some(4),
     vd |-> Some(5), id |-> Some(6), extras |-> {<<"rit", 0>>, <<"af", 3>>}]>>

\* events handed to _applyEvent: one of each type the drivers produce, an
\* 'extra' for a key already held and for a new key, and types the
\* controller has no branch for
DrvEvents ==
  <<Ev("freq", Some(9)), Ev("smeter", Some(9)), Ev("swr", Some(9)), Ev("po", Some(9)),
    Ev("po_w", Some(9)), Ev("rfpwr_setting", Some(9)), Ev("rfpwr_setting_w", Some(9)),
    Ev("vd", Some(9)), Ev("id", Some(9)), Ev("rfpwr", Some(9)), Ev("agc", Some(9)),
    Ev("", Some(9)), Ev("ptt", Some(TRUE)), Ev("mode", Some("USB")),
    Ev("extra", Some(<<"rit", 120>>)), Ev("extra", Some(<<"xit", 0>>))>>

\* controller._applyEvent(ev) on a snapshot; val is <<snapshot before, event,
\* snapshot after>>
DrvApplyEvent ==
  /\ drvCall.op = "none"
  /\ \E i \in DOMAIN DrvSnapshots, j \in DOMAIN DrvEvents :
       LET st == DrvSnapshots[i]
           ev == DrvEvents[j]
       IN  drvCall' = [NoCall EXCEPT !.op = "_applyEvent",
                         !.val = <<st, ev, applyEvent([state |-> st, ctx |-> FreshCtx],
                                                      ev).state>>]
  /\ UNCHANGED <<driver, rxBuf, _drivers, DrvVars>>

NextDriver ==
  \/ \E b \in DrvBytes(driverId) : DrvReceive(b)
  \/ DrvExtractFrames
  \/ \E cmd \in DrvCommands(driverId) : DrvOnCommandSent(cmd)
  \/ \E hz \in DrvHzArgs : DrvCmdSetFreqHz(hz)
  \/ DrvCmdSetOffset
  \/ DrvParseFrame
  \/ DrvDecodeLevel
  \/ DrvCmdSetMode
  \/ DrvApplyEvent
  \/ DrvStartPolling

SpecDriver == Init /\ [][NextDriver]_vars

(***************************************************************************)
(* The registry called directly: registerDriver, createDriver and the      *)
(* construction of another RadioController.  drvCall records the call:     *)
(* val is <<[id, res]>> and objs counts the driver objects constructed.    *)
(***************************************************************************)
MaxRegs == 2
MaxObjs == 3

\* ids handed to the registry: the loaded ones, two more and the empty string
RegIds == DriverIds \cup {"vendor.model", "acme.none", ""}

\* WebCAT.registerDriver(id, (options) => new Class(options), meta)
RegisterDriver(id, class) ==
  /\ NextReg(_drivers) <= Cardinality(DriverIds) + MaxRegs
  /\ LET factory == IF class = "none" THEN NotAFunction
                    ELSE Factory(class, NextReg(_drivers))
         r == registerDriver(_drivers, id, factory)
     IN  /\ _drivers' = r.reg
         /\ drvCall' = [NoCall EXCEPT !.op = "registerDriver", !.objs = drvCall.objs,
                                      !.val = Some([id |-> id, res |-> r])]
  /\ UNCHANGED <<driver, rxBuf, DrvVars>>

\* WebCAT.createDriver(id)
CreateDriver(id) ==
  /\ drvCall.objs < MaxObjs
  /\ LET r == createDriver(_drivers, id, drvCall.objs + 1) IN
       drvCall' = [NoCall EXCEPT !.op = "createDriver",
                                 !.objs = drvCall.objs + (IF r.ok THEN 1 ELSE 0),
                                 !.val = Some([id |-> id, res |-> r])]
  /\ UNCHANGED _drivers
  /\ UNCHANGED <<driver, rxBuf, DrvVars>>

\* new RadioController({ driverId: id }): the constructor calls createDriver
\* before it sets any other field, so a throw leaves no controller
NewRadioController(id) ==
  /\ drvCall.objs < MaxObjs
  /\ LET r == createDriver(_drivers, id, drvCall.objs + 1) IN
       drvCall' = [NoCall EXCEPT !.op = "new RadioController",
                                 !.objs = drvCall.objs + (IF r.ok THEN 1 ELSE 0),
                                 !.val = Some([id |-> id, res |-> r])]
  /\ UNCHANGED _drivers
  /\ UNCHANGED <<driver, rxBuf, DrvVars>>

NextRegistry ==
  \/ \E id \in RegIds, class \in {"icom.ic7300", "yaesu.ft991a", "none"} :
       RegisterDriver(id, class)
  \/ \E id \in RegIds : CreateDriver(id)
  \/ \E id \in RegIds : NewRadioController(id)

SpecRegistry == Init /\ [][NextRegistry]_vars

(***************************************************************************)
(* C1: at most one transport write is in flight at a time, and the writes  *)
(* begin in the order of the send() calls: in the chain of pending sends   *)
(* only the oldest one can have its transport write under way.             *)
(***************************************************************************)
C1_WritesSerialized ==
  \A i \in 1..Len(writeLock.q) : writeLock.q[i].st = "writing" => i = 1

\* a write is in flight and a later send waits behind it
C1_Witness ==
  /\ Len(writeLock.q) >= 2
  /\ writeLock.q[1].st = "writing"
  /\ writeLock.q[2].st = "queued"

C3_OneLoopAtSecondInterval ==
  [][ /\ \A arg \in PollArgs :
           (ensureConnected /\ StartPolling(arg)) =>
             /\ polling'
             /\ pollIntervalMs' = clamp(IF arg.v = 0 THEN pollIntervalMs ELSE arg.v,
                                        MinPollMs, MaxPollMs)
             /\ pollLoops'[_pollRunId'].pc # "none"
             /\ polling => (pollLoops' = pollLoops /\ _pollRunId' = _pollRunId)
      /\ \A i \in 1..Len(writeLock'.q) :
           (writeLock'.q[i].k = "poll" /\ (i > Len(writeLock.q) \/ writeLock.q # writeLock'.q))
             => (writeLock'.q[i].live \/ \E j \in 1..Len(writeLock.q) :
                                            writeLock.q[j] = writeLock'.q[i])
    ]_vars

(***************************************************************************)
(* C4, as stated: no poll-loop read is written to the transport between    *)
(* the write command of a setFrequencyHz / setMode / setPTT call and that  *)
(* call's follow-up read, by a poll loop that the end of another such call *)
(* restarted.                                                              *)
(***************************************************************************)
C4_NoPollBetweenWriteAndRead == ~(lastTx.k = "poll" /\ lastTx.mid /\ lastTx.resumed)

(***************************************************************************)
(* C5, as stated: when an operation that paused polling has settled and    *)
(* the connection is still open, polling is active.                        *)
(***************************************************************************)
C5_PollingResumed == (hist.resumeDue /\ state.connected) => polling

(***************************************************************************)
(* C6, as stated: a receive-loop iteration decodes every extracted frame   *)
(* without raising, and the loop keeps running and reading afterwards.     *)
(***************************************************************************)
C6_ParseNeverRaises == lastRx.ran => (~lastRx.threw /\ running /\ readLoop = "reading")

(***************************************************************************)
(* C7, as stated: a receive-loop iteration that decodes its frames emits   *)
(* exactly one 'update' per frame, whatever the number of events of the    *)
(* frame.                                                                  *)
(***************************************************************************)
C7_OneUpdatePerFrame == (lastRx.ran /\ ~lastRx.threw) => lastRx.updates = lastRx.frames

(***************************************************************************)
(* C8, as stated: when the receive loop's read returns done or throws, an  *)
(* error is emitted, polling stops and state.connected becomes false.      *)
(***************************************************************************)
C8_TransportErrorDisconnects ==
  [][(ReadDone \/ ReadThrow) => ("error" \in emitted' /\ ~polling' /\ ~state'.connected)]_vars

(***************************************************************************)
(* C9: setFrequencyHz, setMode, setPTT and startPolling called while not   *)
(* connected fail with 'Not connected' in the call itself and leave the    *)
(* polling flag, the interval, the snapshot, the write chain and the       *)
(* operations in progress as they were; send() called while not connected  *)
(* changes none of the flag, interval and snapshot, its command never      *)
(* reaches the transport and its promise rejects with 'Not connected'.     *)
(***************************************************************************)
C9_NotConnectedFails ==
  [][ /\ ( /\ ~(state.connected /\ port /\ writer # "null")
           /\ \/ \E arg \in PollArgs : StartPolling(arg)
              \/ \E hz \in HzArgs : SetFrequencyHz(hz)
              \/ \E m \in ModeArgs : SetMode(m)
              \/ \E on \in BOOLEAN : SetPTT(on) )
         => /\ ret' = "Not connected"
            /\ lastTx' = NoTx
            /\ UNCHANGED <<polling, pollIntervalMs, _pollRunId, pollLoops, state,
                           writeLock, mq, ops>>
      /\ (~(state.connected /\ port /\ writer # "null") /\ Send)
         => /\ lastTx' = NoTx
            /\ UNCHANGED <<polling, pollIntervalMs, state>>
      /\ \A i \in 1..Len(writeLock'.q) :
           (writeLock'.q[i].k = "raw" /\ writeLock'.q[i].id = 0)
             => writeLock'.q[i].st = "queued"
      /\ lastTx'.conn
      /\ (ResumeRaw /\ Head(mq).id = 0) => ret' = "Not connected"
    ]_vars

\* a control operation called while not connected has just failed
C9_Witness == ret = "Not connected" /\ ~state.connected /\ calls > 0 /\ mq = <<>>

(***************************************************************************)
(* C10: setMode with a name outside the driver's mode table and            *)
(* setFrequencyHz with a frequency that is <= 0 or not finite, called      *)
(* while connected, fail in the call: no command is handed to the write    *)
(* path, no write begins, the snapshot is unchanged and polling, if it was *)
(* active, is active at the same interval when the call returns.           *)
(***************************************************************************)
C10_InvalidArgumentFails ==
  [][ ( /\ state.connected /\ port /\ writer # "null"
        /\ \/ \E m \in ModeArgs :
                m \notin {"usb", "fm-n"} /\ m \notin DOMAIN ModeMap(driverId) /\ SetMode(m)
           \/ \E hz \in HzArgs : (hz.t # "num" \/ hz.v <= 0) /\ SetFrequencyHz(hz) )
      => /\ ret' \in {"unsupported mode", "Bad frequency"}
         /\ lastTx' = NoTx
         /\ \A i \in 1..Len(writeLock'.q) : writeLock'.q[i].k # "op" \/ i <= Len(writeLock.q)
         /\ \A i \in 1..Len(mq') : mq'[i].k # "op"
         /\ ops' = ops
         /\ state' = state
         /\ polling => (polling' /\ pollIntervalMs' = pollIntervalMs)
    ]_vars

\* an invalid argument has just been refused while polling was active
C10_Witness ==
  /\ ret \in {"unsupported mode", "Bad frequency"}
  /\ state.connected /\ polling /\ hist.resumeDue

(***************************************************************************)
(* C11: when disconnect() completes, polling is stopped, the receive       *)
(* buffer is empty, the driver reference is discarded and the snapshot is  *)
(* back to its initial value with connected = false.                       *)
(* 'disconnected' is emitted by the last statement of disconnect(); with   *)
(* conn.pc = "idle" the call was the page's own, not _connectInternal's.   *)
(***************************************************************************)
C11_DisconnectResets ==
  ("disconnected" \in emitted /\ conn.pc = "idle")
    => (~polling /\ rxBuf = <<>> /\ driver = NoDriver /\ state = FreshState)

(***************************************************************************)
(* C12: disconnect() on an open connection writes the PTT-off command to   *)
(* the transport before it cancels the reader and closes the port.         *)
(* The step in which disconnect() resumes from `await this.setPTT(false)`  *)
(* is the one that goes on to reader.cancel(): at that step the command    *)
(* has been handed to writer.write().                                      *)
(***************************************************************************)
C12_PttOffBeforeCancel ==
  [][(disc.pc = "ptt" /\ disc'.pc # "ptt") => Head(mq).id = 1]_vars

RECURSIVE Flatten(_)
\* the bytes of a sequence of frames, in order
Flatten(fs) == IF fs = <<>> THEN <<>> ELSE Head(fs).bytes \o Flatten(Tail(fs))

(***************************************************************************)
(* C14: extractFrames removes only the bytes of complete frames (for Icom  *)
(* also noise before a start marker) and leaves incomplete trailing bytes  *)
(* in place, so a frame that arrives in pieces, split anywhere, is         *)
(* returned intact once its last byte is there.                            *)
(* Icom: when the bytes received so far are plain noise bytes followed by  *)
(* the first bytes P of a frame FE FE 01.. FD, then after extractFrames    *)
(* either P is complete and is the one frame returned, or no frame was     *)
(* returned and the buffer still ends with P.  FT-991A and FT-857D: the    *)
(* frames returned so far followed by the buffer are the bytes received,   *)
(* an FT-991A frame ends at its first ';' and none is left in the buffer,  *)
(* an FT-857D frame has the length of its expectation.                     *)
(***************************************************************************)
C14_SplitFrameIntact ==
  drvCall.op = "extractFrames" =>
    LET S == drvCall.rx
        noise == {i \in 1..Len(S) : \A j \in 1..i : S[j] = 1}
        P == SubSeq(S, Cardinality(noise) + 1, Len(S))
        n == Len(P)
        started == /\ n >= 1 /\ P[1] = 254
                   /\ n >= 2 => P[2] = 254
                   /\ \A i \in 3..(n - 1) : P[i] = 1
                   /\ n >= 3 => P[n] \in {1, 253}
                   /\ n = 3 => P[n] = 1
    IN  CASE IsIcom(driverId) ->
               started =>
                 IF P[n] = 253
                 THEN drvCall.got = <<U8Val(P)>> /\ rxBuf = <<>>
                 ELSE /\ drvCall.got = <<>>
                      /\ Len(rxBuf) >= n
                      /\ SubSeq(rxBuf, Len(rxBuf) - n + 1, Len(rxBuf)) = P
          [] driverId = "yaesu.ft991a" ->
               /\ Flatten(drvCall.got) \o rxBuf = S
               /\ \A i \in 1..Len(rxBuf) : rxBuf[i] # Semi
               /\ \A k \in 1..Len(drvCall.got) :
                    IndexFrom(drvCall.got[k].bytes, Semi, 1) = Len(drvCall.got[k].bytes)
          [] OTHER ->
               /\ Flatten(drvCall.got) \o rxBuf = S
               /\ \A k \in 1..Len(drvCall.got) :
                    Len(drvCall.got[k].bytes) = drvCall.got[k].exp[1].len

RECURSIVE IsSubseq(_, _)
\* a is b with some elements deleted
IsSubseq(a, b) ==
  IF a = <<>> THEN TRUE
  ELSE IF b = <<>> THEN FALSE
  ELSE IF Head(a) = Head(b) THEN IsSubseq(Tail(a), Tail(b))
  ELSE IsSubseq(a, Tail(b))

C16_FreqModeFrame ==
  LET e == Expect("freqmode", 5, 0) IN
  /\ ( /\ drvCall.op = "onCommandSent" /\ drvCall.exp = <<>>
       /\ drvCall.built.cmd = cmdRead(driverId, "cmdReadFreqMode") )
       => driver.expect = <<e>>
  /\ ( /\ drvCall.op = "extractFrames" /\ driverId = "yaesu.ft857d"
       /\ Len(drvCall.exp) = 1 /\ drvCall.exp[1].type = "freqmode" )
       => /\ Len(drvCall.in) = 5
             => /\ drvCall.frames = <<ObjVal(drvCall.in, e)>>
                /\ rxBuf = <<>> /\ driver.expect = <<>>
          /\ Len(drvCall.in) = 4
             => /\ drvCall.frames = <<>>
                /\ rxBuf = drvCall.in /\ driver.expect = <<e>>

\* the 5-byte reply to the one pending read has just been cut
C16_Witness ==
  /\ drvCall.op = "extractFrames" /\ driverId = "yaesu.ft857d"
  /\ drvCall.exp = <<Expect("freqmode", 5, 0)>>
  /\ Len(drvCall.in) = 5 /\ Len(drvCall.frames) = 1 /\ rxBuf = <<>>

(***************************************************************************)
(* C17: FT-857D.  With an empty expectation queue extractFrames returns no *)
(* frame and leaves the buffer as it was, whatever it holds.  The queue    *)
(* grows only in onCommandSent, by one entry, for a command whose opcode   *)
(* is 0x03, 0xE7 or 0xF7; it shrinks only in extractFrames, from the       *)
(* front, and the frames returned carry the removed expectations in queue  *)
(* order.                                                                  *)
(***************************************************************************)
C17_ExpectationQueue ==
  [][ /\ ( /\ drvCall'.op = "extractFrames" /\ driverId = "yaesu.ft857d"
           /\ driver.expect = <<>> )
         => (drvCall'.frames = <<>> /\ rxBuf' = rxBuf /\ driver'.expect = <<>>)
      /\ Len(driver'.expect) > Len(driver.expect)
         => /\ drvCall'.op = "onCommandSent"
            /\ drvCall'.built.cmd.frames[1][5] \in {3, 231, 247}
            /\ Len(driver'.expect) = Len(driver.expect) + 1
            /\ SubSeq(driver'.expect, 1, Len(driver.expect)) = driver.expect
            /\ driver'.expect[Len(driver'.expect)].type =
                 CASE drvCall'.built.cmd.frames[1][5] = 3 -> "freqmode"
                   [] drvCall'.built.cmd.frames[1][5] = 231 -> "rxstatus"
                   [] OTHER -> "txstatus"
      /\ Len(driver'.expect) < Len(driver.expect)
         => LET k == Len(driver.expect) - Len(driver'.expect) IN
            /\ drvCall'.op = "extractFrames"
            /\ driver'.expect = SubSeq(driver.expect, k + 1, Len(driver.expect))
            /\ Len(drvCall'.frames) = k
            /\ \A i \in 1..k : drvCall'.frames[i].exp[1].type = driver.expect[i].type
      /\ Len(driver'.expect) = Len(driver.expect) => driver'.expect = driver.expect
    ]_vars

\* extractFrames has just run on five buffered bytes with nothing expected
C17_Witness ==
  /\ drvCall.op = "extractFrames" /\ driverId = "yaesu.ft857d"
  /\ drvCall.exp = <<>> /\ Len(drvCall.in) >= 5
  /\ drvCall.frames = <<>> /\ rxBuf = drvCall.in

(***************************************************************************)
(* C18: frequency round trip.  For a frequency in the driver's range       *)
(* (Icom: positive, below 10^10; FT-991A: positive, below 10^9; FT-857D:   *)
(* a positive multiple of 10 below 10^9) cmdSetFreqHz(hz) builds a command *)
(* and the driver's frequency reply carrying the same frequency bytes      *)
(* decodes to a freq event with exactly hz.  The frequencies tried are     *)
(* those of DrvHzArgs, all below 2^31.                                     *)
(***************************************************************************)
C18_FreqRoundTrip ==
  ( /\ drvCall.op = "cmdSetFreqHz" /\ IsFinite(drvCall.arg) /\ drvCall.arg.v > 0
    /\ CASE IsIcom(driverId) -> TRUE
         [] driverId = "yaesu.ft991a" -> drvCall.arg.v < 1000000000
         [] OTHER -> drvCall.arg.v < 1000000000 /\ drvCall.arg.v % 10 = 0 )
    => /\ drvCall.built.ok
       /\ ~drvCall.dec.threw
       /\ drvCall.dec.events # <<>>
       /\ drvCall.dec.events[1] = Ev("freq", Some(drvCall.arg.v))

\* 14074000 Hz went through the IC-7300 encoder and came back from its decoder
C18_Witness ==
  /\ drvCall.op = "cmdSetFreqHz" /\ driverId = "icom.ic7300"
  /\ drvCall.arg = Num(14074000)
  /\ drvCall.built.cmd.frames[1] = <<254, 254, 148, 224, 5, 0, 64, 7, 20, 0, 253>>
  /\ drvCall.dec.events = <<Ev("freq", Some(14074000))>>

(***************************************************************************)
(* C19: for every driver and every finite positive hz, cmdSetFreqHz(hz)    *)
(* either throws or builds bytes that decode back to exactly hz.           *)
(***************************************************************************)
C19_ThrowOrRoundTrip ==
  (drvCall.op = "cmdSetFreqHz" /\ IsFinite(drvCall.arg) /\ drvCall.arg.v > 0)
    => \/ ~drvCall.built.ok
       \/ /\ drvCall.dec.events # <<>>
          /\ drvCall.dec.events[1] = Ev("freq", Some(drvCall.arg.v))

(***************************************************************************)
(* C20: IC-7300 cmdSetRIT(v) and cmdSetXIT(v) clamp v to [-9999, 9999] and *)
(* encode it as signed 16-bit little-endian two's complement: the frame is *)
(* 14 07 (RIT) or 14 08 (XIT) followed by two bytes that read as signed    *)
(* LE16 give max(-9999, min(9999, v)); _decodeOffset16, reached through    *)
(* parseFrame on the same payload, gives that value back.                  *)
(***************************************************************************)
C20_OffsetClampedLE16 ==
  drvCall.op \in {"cmdSetRIT", "cmdSetXIT"} =>
    LET f == drvCall.built.cmd.frames[1]
        v == drvCall.arg.v
        want == Max(-9999, Min(9999, v))
        u16 == f[7] + 256 * f[8]
        s16 == IF u16 >= 32768 THEN u16 - 65536 ELSE u16
    IN  /\ Len(f) = 9
        /\ f[5] = 20 /\ f[6] = (IF drvCall.op = "cmdSetRIT" THEN 7 ELSE 8)
        /\ f[7] \in 0..255 /\ f[8] \in 0..255
        /\ s16 = want
        /\ drvCall.dec.events =
             <<Ev(IF drvCall.op = "cmdSetRIT" THEN "rit" ELSE "xit", Some(want))>>

\* cmdSetRIT(-20000) has been encoded as -9999: D8F1 little-endian is F1 D8
C20_Witness ==
  /\ drvCall.op = "cmdSetRIT" /\ drvCall.arg = Num(-20000)
  /\ drvCall.built.cmd.frames[1][7] = 241 /\ drvCall.built.cmd.frames[1][8] = 216
  /\ drvCall.dec.events = <<Ev("rit", Some(-9999))>>

(***************************************************************************)
(* C21: for the BCD-encoded drivers (Icom, FT-857D), a frequency response  *)
(* in which a nibble of the frequency bytes exceeds 9 is invalid:          *)
(* parseFrame returns no frequency event and applying what it returned     *)
(* leaves the snapshot as it was.                                          *)
(***************************************************************************)
C21_BadNibbleNoFreq ==
  LET in == drvCall.in
      isFreq == IF IsIcom(driverId) THEN Len(in) = 11 /\ in[5] = 3
                ELSE driverId = "yaesu.ft857d" /\ Len(in) = 5
      freqBytes == IF IsIcom(driverId) THEN SubSeq(in, 6, 10) ELSE SubSeq(in, 1, 4)
  IN  ( /\ drvCall.op = "parseFrame" /\ isFreq
        /\ \E i \in DOMAIN freqBytes : freqBytes[i] % 16 > 9 \/ freqBytes[i] \div 16 > 9 )
        => /\ ~drvCall.dec.threw
           /\ \A k \in DOMAIN drvCall.dec.events : drvCall.dec.events[k].type # "freq"
           /\ applyEvents([state |-> state, ctx |-> ctx], drvCall.dec.events).state = state

(***************************************************************************)
(* C22: an Icom frame shorter than its command needs produces no event: a  *)
(* frequency reply with fewer than five frequency bytes, and a meter       *)
(* (15 sub) or level (14 sub) frame that carries no level bytes, such as   *)
(* the bus echo of the read command, give an empty event list, and         *)
(* applying it leaves the snapshot as it was.                              *)
(***************************************************************************)
C22_ShortFrameNoEvent ==
  LET in == drvCall.in
      short == \/ in[5] = 3 /\ Len(in) < 11
               \/ in[5] \in {20, 21} /\ Len(in) = 7
  IN  (drvCall.op = "parseFrame" /\ IsIcom(driverId) /\ Len(in) >= 6 /\ short)
        => /\ drvCall.dec = Events(<<>>)
           /\ applyEvents([state |-> state, ctx |-> ctx], drvCall.dec.events).state = state

(***************************************************************************)
(* C23: _decodeLevel0to255 never raises.  For a payload of at least two    *)
(* bytes whose four nibbles are all at most 9 and whose 4-digit decimal    *)
(* value is at most 255 it returns that value; for every other non-empty   *)
(* payload (a nibble above 9, a value above 255, a single byte) it returns *)
(* the first raw byte; the result for a non-empty payload is in 0..255.    *)
(* For the empty payload it returns null.                                  *)
(***************************************************************************)
C23_LevelDecoding ==
  drvCall.op = "_decodeLevel0to255" =>
    LET data == drvCall.in
        nib == <<data[1] \div 16, data[1] % 16, data[2] \div 16, data[2] % 16>>
        bcd == nib[1] * 1000 + nib[2] * 100 + nib[3] * 10 + nib[4]
    IN  IF data = <<>> THEN drvCall.val = Null
        ELSE /\ Len(drvCall.val) = 1
             /\ drvCall.val[1] \in 0..255
             /\ drvCall.val[1] =
                  IF Len(data) >= 2 /\ (\A i \in 1..4 : nib[i] <= 9) /\ bcd <= 255
                  THEN bcd ELSE data[1]

\* 02 56 reads 256 as BCD, above 255: the first raw byte came back
C23_Witness ==
  /\ drvCall.op = "_decodeLevel0to255" /\ drvCall.in = <<2, 86>>
  /\ drvCall.val = Some(2)

(***************************************************************************)
(* C24: IC-7300 cmdSetMode(m), for every supported mode m, returns exactly *)
(* two frames in order: the base-mode frame (payload 06 code, code the     *)
(* base code of m with a "-D" suffix ignored), then the data-mode frame    *)
(* (payload 1A 06 flag) with flag = 01 exactly when m is one of the "-D"   *)
(* modes and 00 otherwise; every name of availableModes() is accepted.     *)
(***************************************************************************)
C24_SetModeTwoFrames ==
  LET base == ("LSB" :> 0) @@ ("USB" :> 1) @@ ("AM" :> 2) @@ ("CW" :> 3) @@ ("RTTY" :> 4) @@
              ("FM" :> 5) @@ ("CW-R" :> 7) @@ ("RTTY-R" :> 8) @@ ("DV" :> 23) @@ ("DD" :> 34)
      dataOf == ("LSB-D" :> "LSB") @@ ("USB-D" :> "USB") @@ ("AM-D" :> "AM") @@
                ("CW-D" :> "CW") @@ ("RTTY-D" :> "RTTY") @@ ("FM-D" :> "FM")
      m == drvCall.val[1]
      cmd == drvCall.built.cmd
  IN  /\ (drvCall.op = "cmdSetMode" /\ \E i \in DOMAIN availableModes : availableModes[i] = m)
           => drvCall.built.ok /\ m \in DOMAIN base \cup DOMAIN dataOf
      /\ (drvCall.op = "cmdSetMode" /\ m \in DOMAIN base \cup DOMAIN dataOf)
        => /\ drvCall.built.ok
           /\ cmd.arr
           /\ cmd.frames =
                << <<254, 254, 148, 224, 6,
                     IF m \in DOMAIN dataOf THEN base[dataOf[m]] ELSE base[m], 253>>,
                   <<254, 254, 148, 224, 26, 6, IF m \in DOMAIN dataOf THEN 1 ELSE 0, 253>> >>

\* cmdSetMode('USB-D') returned 06 01, then 1A 06 01
C24_Witness ==
  /\ drvCall.op = "cmdSetMode" /\ drvCall.val = Some("USB-D")
  /\ drvCall.built.ok
  /\ drvCall.built.cmd.frames =
       << <<254, 254, 148, 224, 6, 1, 253>>, <<254, 254, 148, 224, 26, 6, 1, 253>> >>

(***************************************************************************)
(* C25: createDriver(id) for an id that has never been registered fails    *)
(* with 'Unknown driver', and so does constructing a RadioController with  *)
(* that id; for a registered id createDriver invokes the factory of the    *)
(* most recent registration of that id and returns a new driver instance   *)
(* on every call.  The registry has no removal, so the ids never           *)
(* registered are those outside its domain; a successful registerDriver    *)
(* makes its factory the entry of the id and leaves the other ids alone.   *)
(***************************************************************************)
C25_CreateDriver ==
  [][ /\ \A id \in RegIds :
           (CreateDriver(id) \/ NewRadioController(id)) =>
             LET res == drvCall'.val[1].res IN
             IF id \notin DOMAIN _drivers
             THEN ~res.ok /\ res.err = "Unknown driver" /\ res.inst = Null
                  /\ drvCall'.objs = drvCall.objs
             ELSE /\ res.ok
                  /\ res.inst[1].by = _drivers[id].factory
                  /\ res.inst[1].obj \notin 1..drvCall.objs
      /\ \A id \in RegIds, class \in {"icom.ic7300", "yaesu.ft991a"} :
           (RegisterDriver(id, class) /\ id # "") =>
             /\ id \in DOMAIN _drivers'
             /\ _drivers'[id].factory.class = class
             /\ \A j \in DOMAIN _drivers : _drivers'[id].factory.reg > _drivers[j].factory.reg
             /\ \A j \in DOMAIN _drivers \ {id} : _drivers'[j] = _drivers[j]
      /\ DOMAIN _drivers \subseteq DOMAIN _drivers' ]_vars

\* a third driver object has been made, by the factory registered for
\* 'icom.ic7300' after the scripts' own registration
C25_Witness ==
  /\ drvCall.op = "createDriver" /\ drvCall.val[1].id = "icom.ic7300"
  /\ drvCall.val[1].res.ok
  /\ drvCall.val[1].res.inst[1].by.reg > 4
  /\ drvCall.val[1].res.inst[1].by.class = "yaesu.ft991a"
  /\ drvCall.objs = 3

(***************************************************************************)
(* C26: every connection attempt constructs a new driver instance: at the  *)
(* moment a connection becomes Connected the driver's expectation queue is *)
(* empty and the receive buffer is empty, whatever was sent, missed or     *)
(* left over on an earlier connection of the same controller.              *)
(***************************************************************************)
C26_FreshDriverOnConnect ==
  "connected" \in emitted =>
    /\ state.connected
    /\ driver.id = driverId
    /\ driver.expect = <<>>
    /\ rxBuf = <<>>

\* the FT-857D controller has just become Connected again after an earlier
\* connection on which polling had been started
C26_Witness ==
  /\ "connected" \in emitted /\ driverId = "yaesu.ft857d"
  /\ _pollRunId >= 1
  /\ driver.expect = <<>> /\ rxBuf = <<>>

(***************************************************************************)
(* C27: disconnect() always terminates: the pending read of the receive    *)
(* loop is cancelled so the loop exits, and disconnect completes and       *)
(* reaches the Disconnected state even if no further byte ever arrives,    *)
(* assuming only that transport writes, cancel and close eventually        *)
(* settle.  Every disconnect in progress leads to the step that emits      *)
(* 'disconnected' with the receive loop no longer reading and the snapshot *)
(* not connected.                                                          *)
(***************************************************************************)
C27_DisconnectTerminates ==
  (disc.pc # "idle") ~>
    ( /\ disc.pc = "idle"
      /\ "disconnected" \in emitted
      /\ readLoop # "reading"
      /\ ~state.connected )

\* a user's disconnect() has completed and the receive loop it found has ended
C27_Witness ==
  /\ "disconnected" \in emitted /\ ret = "ok"
  /\ disc.pc = "idle" /\ readLoop = "ended" /\ reader = "null"

(***************************************************************************)
(* C28: if a poll-loop write fails mid-sequence, that poll loop submits no *)
(* further commands (neither the rest of the current sequence nor any      *)
(* later tick), exactly one error notification is emitted for the failure, *)
(* the polling flag becomes false, and the failed command is not retried.  *)
(* In steps: when loop g resumes from a rejected send it emits 'error' and *)
(* nothing else, polling is false, the loop is parked in its sleep and     *)
(* none of its sends is pending; a loop calls send() only in a step that   *)
(* ends with polling true and its own run id current; and a loop for which *)
(* that does not hold never gets it back.                                  *)
(***************************************************************************)
C28_PollWriteFailure ==
  [][ \A g \in 1..MaxRunId :
        /\ (ResumePoll /\ Head(mq).id = g /\ Head(mq).res # "ok")
             => /\ ~polling'
                /\ emitted' = {"error"}
                /\ pollLoops'[g].pc = "sleep"
                /\ lastTx' = NoTx
                /\ \A i \in DOMAIN writeLock'.q :
                     ~(writeLock'.q[i].k = "poll" /\ writeLock'.q[i].id = g)
                /\ \A i \in DOMAIN mq' : ~(mq'[i].k = "poll" /\ mq'[i].id = g)
        /\ ( /\ pollLoops'[g].pc = "send"
              /\ (pollLoops[g].pc # "send" \/ pollLoops'[g].idx # pollLoops[g].idx) )
             => polling' /\ _pollRunId' = g
        /\ (pollLoops[g].pc # "none" /\ ~(polling /\ _pollRunId = g))
             => ~(polling' /\ _pollRunId' = g) ]_vars

\* the first command of a two-command poll sequence has been rejected: the
\* loop is parked with polling false and the second command never sent
C28_Witness ==
  /\ "error" \in emitted /\ ~polling
  /\ Len(pollSequence(driverId)) = 2
  /\ \E g \in 1..MaxRunId : pollLoops[g].pc = "sleep" /\ _pollRunId = g
  /\ writeLock.err # "none"
  /\ readLoop = "reading"


\* C29 -- When the driver's mode-set command has two frames (IC-7300: base
\* mode, then data-mode flag), setMode hands the transport both frames as
\* byte sequences, base-mode frame first, with no other command's bytes
\* between them: every writer.write() begun for a mode-set command receives
\* a Uint8Array, never an Array of frames.  lastTx.chunk is the type of the
\* argument writer.write() was called with in this step.
C29_SetModeFramesAsBytes ==
  (lastTx.k = "op" /\ lastTx.role = "set" /\ lastTx.name = "cmdSetMode")
    => lastTx.chunk = <<"Uint8Array">>


(***************************************************************************)
(* C30 -- Icom drivers: when the buffer handed to extractFrames is noise   *)
(* that holds no start marker FE FE, followed by one complete frame        *)
(* FE FE .. FD (at least one byte between marker and FD, FD only at the    *)
(* end), the call returns exactly that frame, beginning at its own start   *)
(* marker, and empties the buffer; noise may end in FE.                    *)
(***************************************************************************)
C30_NoiseThenFrame ==
  (drvCall.op = "extractFrames" /\ IsIcom(driverId)) =>
    \A k \in 0..Len(drvCall.in) :
      LET B == drvCall.in
          noise == SubSeq(B, 1, k)
          frame == SubSeq(B, k + 1, Len(B))
          n == Len(frame)
      IN  ( /\ PreambleAt(noise) = 0
            /\ n >= 4 /\ frame[1] = 254 /\ frame[2] = 254 /\ frame[n] = 253
            /\ \A i \in 3..(n - 1) : frame[i] # 253 )
            => drvCall.frames = <<U8Val(frame)>> /\ rxBuf = <<>>


(***************************************************************************)
(* C31 -- Applying one state-update event changes only the snapshot field  *)
(* named by the event's type: freq -> freqHz, mode -> mode, ptt -> ptt,    *)
(* smeter -> smeterRaw, swr, po, rfpwr, vd, id, and that field takes the   *)
(* event's value; 'extra' puts its key into extras and keeps the other     *)
(* keys; every other snapshot field is unchanged, and an event of a type   *)
(* the controller does not know changes no field.                          *)
(***************************************************************************)
C31_EventField ==
  [t \in {"freq", "mode", "ptt", "smeter", "swr", "po", "po_w", "rfpwr_setting",
          "rfpwr_setting_w", "vd", "id", "extra"} |->
     CASE t = "freq" -> "freqHz"
       [] t = "smeter" -> "smeterRaw"
       [] t \in {"po", "po_w"} -> "po"
       [] t \in {"rfpwr_setting", "rfpwr_setting_w"} -> "rfpwr"
       [] t = "extra" -> "extras"
       [] OTHER -> t]

C31_OnlyNamedField ==
  drvCall.op = "_applyEvent" =>
    LET before == drvCall.val[1]
        ev == drvCall.val[2]
        after == drvCall.val[3]
    IN  IF ev.type \notin DOMAIN C31_EventField THEN after = before
        ELSE LET f == C31_EventField[ev.type] IN
             /\ \A g \in DOMAIN before \ {f} : after[g] = before[g]
             /\ DOMAIN after = DOMAIN before
             /\ IF f = "extras"
                THEN /\ ev.v[1] \in after.extras
                     /\ \A p \in before.extras : p[1] # ev.v[1][1] => p \in after.extras
                     /\ \A p \in after.extras : p = ev.v[1] \/ p \in before.extras
                     /\ \A p, q \in after.extras : p[1] = q[1] => p = q
                ELSE IF f \in {"swr", "po", "rfpwr", "vd", "id"}
                THEN after[f] = Some(ev.v)
                ELSE after[f] = ev.v

\* a frequency event was applied to a snapshot that held a mode and extras
C31_Witness ==
  /\ drvCall.op = "_applyEvent" /\ drvCall.val[2].type = "freq"
  /\ drvCall.val[1].mode = Some("LSB") /\ drvCall.val[3].mode = Some("LSB")
  /\ drvCall.val[3].freqHz = Some(9) /\ drvCall.val[1].freqHz = Some(7100000)
  /\ drvCall.val[3].extras = drvCall.val[1].extras


(***************************************************************************)
(* C32 -- When a user-initiated write is issued while polling is active,   *)
(* at most one poll read command (the one already handed to the write      *)
(* path) is written to the transport before the user's write command.      *)
(* The write chain is first-in first-out, so the commands written before   *)
(* the operation's write are the jobs ahead of it in the chain.            *)
(***************************************************************************)
C32_AtMostOnePollAhead ==
  \A i \in 1..Len(writeLock.q) :
    LET j == writeLock.q[i] IN
    (j.k = "op" /\ j.role = "set" /\ ops[j.id].was)
      => Cardinality({n \in 1..(i - 1) : writeLock.q[n].k = "poll"}) <= 1


(***************************************************************************)
(* C33 -- FT-857D connected: once a read-frequency/mode command has been   *)
(* transmitted (its expectation heads the queue) and the 5-byte response   *)
(* with valid BCD digits is received, the receive loop hands the decoder   *)
(* the frame with the expectation it was matched to, the decoder does not  *)
(* raise, and the snapshot's freqHz and mode become the decoded values     *)
(* (01 40 74 00 01: 14.074 MHz, USB).                                      *)
(***************************************************************************)
C33_FreqModeIntoSnapshot ==
  [][ ( /\ driverId = "yaesu.ft857d" /\ state.connected
        /\ driver.expect # <<>> /\ Head(driver.expect).type = "freqmode"
        /\ rxBuf = <<>>
        /\ lastRx'.ran /\ lastRx'.frames >= 1 )
      => ( /\ ~lastRx'.threw
           /\ state'.freqHz = Some(14074000)
           /\ state'.mode = Some(<<"USB", -1>>) ) ]_vars


(***************************************************************************)
(* C34 -- For every control descriptor of controlsSchema() of every        *)
(* driver, invoking its apply action with a valid value on a connected     *)
(* controller hands at least one driver command to the controller's        *)
(* serialized write path (the write chain is healthy).                     *)
(***************************************************************************)
C34_ApplySendsCommand ==
  [][ \A i \in DOMAIN controlsSchema(driverId) :
        ( /\ state.connected /\ port /\ writer # "null" /\ writeLock.err = "none"
          /\ ApplyControl(i) )
          => Len(writeLock'.q) > Len(writeLock.q) ]_vars

(***************************************************************************)
(* C35 -- Once a send() has failed (its transport write or its connectivity *)
(* check), the write chain stays rejected with that error: no step attempts *)
(* a transport write or calls onCommandSent, every send() made meanwhile    *)
(* rejects with the same error, and only the reset of the write lock in     *)
(* disconnect() clears it.                                                  *)
(***************************************************************************)
C35_RejectedChainStays ==
  [][ writeLock.err # "none" =>
        \/ /\ writeLock'.err = writeLock.err
           /\ writeLock'.q = <<>>
           /\ lastTx' = NoTx
           /\ Len(driver'.expect) <= Len(driver.expect)
           /\ \A i \in DOMAIN mq' :
                \/ mq'[i].res = writeLock.err
                \/ \E j \in DOMAIN mq : mq[j] = mq'[i]
        \/ /\ "disconnected" \in emitted'
           /\ writeLock' = FreshLock
           /\ lastTx' = NoTx
           /\ driver'.expect = <<>> ]_vars

\* a send() was called on a rejected chain and has settled with its error
C35_Witness ==
  /\ hist.rejected
  /\ writeLock.err = "WriteError"
  /\ writeLock.q = <<>>
  /\ mq = <<Settled("raw", 1, "WriteError")>>

(***************************************************************************)
(* C36 -- A stopPolling() called while a setFrequencyHz / setMode / setPTT  *)
(* call has polling paused changes nothing; and when such a call settles    *)
(* with the connection still open, polling is active again, with a loop of  *)
(* the current generation, at the interval captured when the call began.    *)
(***************************************************************************)
C36_StopWhilePausedNoEffect ==
  [][ /\ (StopPolling /\ ~polling /\ PausedOps # {})
         => UNCHANGED <<polling, _pollRunId, pollIntervalMs, pollLoops, writeLock, mq, ops,
                        IoVars, driver>>
      /\ \A o \in PausedOps :
           ( /\ ops'[o].kind = "none"
             /\ state.connected /\ port /\ writer # "null"
             /\ state'.connected /\ port' /\ writer' # "null" )
           => ( /\ polling'
                /\ pollIntervalMs' = ops[o].ms
                /\ pollLoops'[_pollRunId'].pc # "none" ) ]_vars

\* stopPolling() has just been called while a call in progress had polling
\* paused
C36_Witness ==
  /\ hist.stopPaused
  /\ ~polling
  /\ PausedOps # {}
  /\ state.connected /\ port /\ writer # "null"

(***************************************************************************)
(* C37 -- Whenever state.connected is true the port, the writer and the     *)
(* driver are set; and while state.connected is false setFrequencyHz,       *)
(* setMode, setPTT and startPolling fail with 'Not connected' in the call,  *)
(* and a send() rejects with 'Not connected', whether its callback runs or  *)
(* the chain had already rejected.                                          *)
(***************************************************************************)
C37_ConnectedMeansReferences ==
  [][ /\ state'.connected => (port' /\ writer' # "null" /\ driver'.id # "none")
      /\ ( /\ ~state.connected
           /\ \/ \E arg \in PollArgs : StartPolling(arg)
              \/ \E hz \in HzArgs : SetFrequencyHz(hz)
              \/ \E m \in ModeArgs : SetMode(m)
              \/ \E on \in BOOLEAN : SetPTT(on) )
         => ret' = "Not connected"
      /\ (~state.connected /\ Send)
         => \/ mq' = <<Settled("raw", 0, "Not connected")>>
            \/ /\ writeLock'.q = <<Job("raw", 0, "raw", RawCmd, TRUE)>>
               /\ StartReady'
      /\ (StartWrite /\ Head(writeLock.q).k = "raw" /\ Head(writeLock.q).id = 0)
         => /\ lastTx' = NoTx
            /\ mq' = <<Settled("raw", 0, "Not connected")>> ]_vars

\* a control operation has just failed with 'Not connected' although the port
\* and the writer of a connect attempt that did not complete are set
C37_Witness ==
  /\ ret = "Not connected"
  /\ ~state.connected /\ port /\ writer = "active"
  /\ calls > 1

C39_IntervalAndDelaysBounded ==
  /\ perCmdDelay \in 0..MaxCmdDelayMs
  /\ pollIntervalMs \in MinPollMs..MaxPollMs
  /\ drvCall.op = "startPolling" =>
       LET prev == drvCall.val[1]
           arg == drvCall.val[2]
           ms == drvCall.val[3]
       IN  /\ ms \in 20..10000
           /\ (arg.t = "nan" \/ arg = Num(0)) => ms = prev
           /\ drvCall.val[5] \in 0..250
           /\ drvCall.val[6] >= 0

\* the third startPolling of a sequence was called with 0 after a negative
\* argument had set the interval to the lower limit
C39_Witness ==
  /\ drvCall.op = "startPolling"
  /\ drvCall.val[4] = MaxPollCalls
  /\ drvCall.val[1] = MinPollMs
  /\ drvCall.val[2] = Num(0)
  /\ drvCall.val[3] = MinPollMs

(***************************************************************************)
(* C40 -- Every frame extractFrames returns is well delimited.  FT-991A: a  *)
(* frame ends with ';' and holds no other ';', and the buffer left after    *)
(* the call holds no ';'.  IC-9700 and IC-7300: a frame begins with FE FE,  *)
(* ends with FD and holds no other FD.                                      *)
(***************************************************************************)
C40_FramesWellDelimited ==
  drvCall.op = "extractFrames" =>
    /\ driverId = "yaesu.ft991a" =>
         /\ \A i \in DOMAIN drvCall.frames :
              LET f == drvCall.frames[i].bytes IN
                /\ f # <<>>
                /\ f[Len(f)] = Semi
                /\ \A k \in 1..(Len(f) - 1) : f[k] # Semi
         /\ \A k \in DOMAIN rxBuf : rxBuf[k] # Semi
    /\ IsIcom(driverId) =>
         \A i \in DOMAIN drvCall.frames :
           LET f == drvCall.frames[i].bytes IN
             /\ Len(f) >= 3
             /\ f[1] = 254 /\ f[2] = 254
             /\ f[Len(f)] = 253
             /\ \A k \in 1..(Len(f) - 1) : f[k] # 253

\* extractFrames has cut a frame out of a buffer that held bytes before the
\* preamble and a second FD after the frame's end byte
C40_Witness ==
  /\ drvCall.op = "extractFrames" /\ IsIcom(driverId)
  /\ Len(drvCall.frames) = 1
  /\ drvCall.in[1] # 254
  /\ Cardinality({k \in DOMAIN drvCall.in : drvCall.in[k] = 253}) >= 2
  /\ rxBuf # <<>>

====
